---- MODULE Spec2Model ----
(***************************************************************************)
(* Model of the UK Biobank agent: the multi-turn tool-calling loop         *)
(* (agents/ukb_agent.py), the GLM client with its in-memory rate limiter   *)
(* (api/client.py), the exception taxonomy and the error normalizer        *)
(* (core/exceptions.py) and the language detector (config/prompts.py).     *)
(*                                                                         *)
(* Values.  Python None is the string None.  A text the code scans         *)
(* character by character (the user query) is a sequence of code points.   *)
(* A text the code only formats is a sequence of parts, format() being     *)
(* concatenation of parts.  A JSON text is the record                      *)
(* [type |-> "str", json |-> v] of the value v it serializes, or           *)
(* [type |-> "str", json |-> Malformed] when it does not parse.            *)
(***************************************************************************)
EXTENDS Integers, Sequences, FiniteSets, TLC

VARIABLES
    glm_api_key,            \* settings.api.glm_api_key
    debug,                  \* settings.debug
    enable_rate_limiting,   \* settings.enable_rate_limiting
    rate_limit,             \* GLMClient.rate_limit (settings.api.rate_limit_per_minute)
    _requests,              \* GLMClient._requests: admitted request timestamps
    now,                    \* the wall clock read by time.time(), in seconds
    _global_client,         \* api.client._global_client
    _global_agent,          \* agents.ukb_agent._global_agent
    pc,                     \* state of the orchestration loop of the current query
    user_query,             \* run_agent_safe argument
    language,               \* the language tag after resolution
    messages,               \* the transcript of UKBAgent.run
    iteration,              \* loop variable of UKBAgent.run
    message,                \* response.choices[0].message of the current turn
    call_index,             \* position in message.tool_calls (1-based)
    envelope,               \* what run_agent_safe returned (None before)
    escaped,                \* an exception that left run_agent_safe (None if none)
    run_outcome,            \* what UKBAgent.run returned or raised (None before)
    deviations,             \* how many non-plain response features the transport used
    hist,                   \* observation log: counters and the responses received
    threads                 \* concurrent callers of one client: position and locals

vars == <<glm_api_key, debug, enable_rate_limiting, rate_limit, _requests, now,
          _global_client, _global_agent, pc, user_query, language, messages,
          iteration, message, call_index, envelope, escaped, run_outcome,
          deviations, hist, threads>>

None == "None"

(***************************************************************************)
(* Bounds of the model.                                                    *)
(***************************************************************************)
MaxCalls == 2           \* tool calls in one response
MaxDeviations == 2      \* non-plain response features per query (see Cost)
MaxRateLimit == 1       \* small quotas tried beside the default one
MaxQuota == 3           \* quotas tried when the limiter is driven directly
MaxClientCalls == 5     \* direct chat_completion calls when driven directly
MaxTime == 120          \* the clock stops advancing here
MaxThreads == 2          \* concurrent callers of one client
MaxQueries == 3         \* queries started on the shared agent
MaxThreadCalls == 3      \* chat_completion calls of the concurrent callers together
MaxCjk == 4              \* CJK characters in a text given to detect_language
MaxOther == 8            \* other characters that are no white space
MaxSpaces == 2           \* ' ' characters
MaxWhitespace == 2       \* tab or newline characters

(***************************************************************************)
(* Program constants.                                                      *)
(***************************************************************************)
max_iterations == 6
WINDOW == 60
RETRY_AFTER == 60
DEFAULT_RATE_LIMIT == 60
CJK_FIRST == 19968      \* U+4E00
CJK_LAST == 40959       \* U+9FFF
SPACE == 32             \* ' '

(***************************************************************************)
(* core/exceptions.py: the exception taxonomy.  An exception is a record   *)
(* of its class, message (parts), code and details.                        *)
(***************************************************************************)
EmptyDict == [k \in {} |-> None]

UKBClasses ==
    {"UKBSearchException", "ConfigurationError", "DatabaseError", "APIError",
     "ValidationError", "FieldNotFoundError", "EncodingNotFoundError",
     "CategoryNotFoundError", "RateLimitError", "ToolExecutionError", "PromptError"}

UKBSearchException(msg, error_code, details) ==
    [cls |-> "UKBSearchException", message |-> msg,
     error_code |-> IF error_code = None THEN "UNKNOWN_ERROR" ELSE error_code,
     details |-> details]

APIError(msg, api_name) ==
    [cls |-> "APIError", message |-> msg, error_code |-> "API_ERROR",
     details |-> IF api_name = None THEN EmptyDict ELSE [api_name |-> api_name]]

RateLimitError(msg, retry_after) ==
    [cls |-> "RateLimitError", message |-> msg, error_code |-> "RATE_LIMIT_EXCEEDED",
     details |-> IF retry_after = 0 THEN EmptyDict ELSE [retry_after |-> retry_after]]

FieldNotFoundError(field_id) ==
    [cls |-> "FieldNotFoundError",
     message |-> <<"Field ", field_id, " not found in database">>,
     error_code |-> "FIELD_NOT_FOUND", details |-> [field_id |-> field_id]]

EncodingNotFoundError(encoding_id) ==
    [cls |-> "EncodingNotFoundError",
     message |-> <<"Encoding ", encoding_id, " not found in database">>,
     error_code |-> "ENCODING_NOT_FOUND", details |-> [encoding_id |-> encoding_id]]

CategoryNotFoundError(category_name) ==
    [cls |-> "CategoryNotFoundError",
     message |-> <<"Category '", category_name, "' not found in database">>,
     error_code |-> "CATEGORY_NOT_FOUND", details |-> [category_name |-> category_name]]

ToolExecutionError(tool_name, msg) ==
    [cls |-> "ToolExecutionError",
     message |-> <<"Tool '", tool_name, "' execution failed: ">> \o msg,
     error_code |-> "TOOL_EXECUTION_ERROR", details |-> [tool_name |-> tool_name]]

\* An exception that is no UKBSearchException (json.JSONDecodeError, TypeError, ...).
BuiltinError(cls, msg) == [cls |-> cls, message |-> msg]

IsUKBSearchException(e) == e.cls \in UKBClasses

\* str(e)
StrOf(e) == e.message

\* What a call did: it returned a value or raised an exception.
Return(v) == [kind |-> "return", value |-> v]
Raise(e) == [kind |-> "raise", exc |-> e]

\* A faulty variant of the wrapper below: the default is tested for truth,
\* not for None, so an empty default is not returned.
handle_exceptions_Truthy(default_return, func_name, outcome) ==
    IF outcome.kind = "raise" /\ ~IsUKBSearchException(outcome.exc)
    THEN IF default_return # None /\ default_return # ""
         THEN Return(default_return)
         ELSE Raise(UKBSearchException(
                      <<"Unexpected error in ", func_name, ": ">> \o StrOf(outcome.exc),
                      "UNEXPECTED_ERROR",
                      [function |-> func_name, original_error |-> StrOf(outcome.exc)]))
    ELSE outcome

\* The wrapper of @handle_exceptions(default_return) (default_return is None at
\* every use in the agent and the client): a UKBSearchException passes, any
\* other exception gives the default when one that is not None was
\* configured and otherwise becomes a UKBSearchException with code
\* UNEXPECTED_ERROR.
handle_exceptions(default_return, func_name, outcome) ==
    IF outcome.kind = "raise" /\ ~IsUKBSearchException(outcome.exc)
    THEN IF default_return # None
         THEN Return(default_return)
         ELSE Raise(UKBSearchException(
                      <<"Unexpected error in ", func_name, ": ">> \o StrOf(outcome.exc),
                      "UNEXPECTED_ERROR",
                      [function |-> func_name, original_error |-> StrOf(outcome.exc)]))
    ELSE outcome

(***************************************************************************)
(* config/prompts.py                                                       *)
(***************************************************************************)
CHINESE == "zh"
ENGLISH == "en"
Language == {CHINESE, ENGLISH}

RECURSIVE CountIf(_, _, _)
CountIf(text, lo, hi) ==
    IF text = <<>> THEN 0
    ELSE (IF lo <= Head(text) /\ Head(text) <= hi THEN 1 ELSE 0)
         + CountIf(Tail(text), lo, hi)

\* A faulty variant of the function below: >= where the code has >.
detect_language_Inclusive(text) ==
    LET chinese_chars == CountIf(text, CJK_FIRST, CJK_LAST)
        total_chars == Len(text) - CountIf(text, SPACE, SPACE)
    IN  IF total_chars = 0 THEN CHINESE
        ELSE IF 10 * chinese_chars >= 3 * total_chars THEN CHINESE ELSE ENGLISH

\* detect_language: the share of CJK characters among the characters that are
\* not ' '; chinese_chars / total_chars > 0.3 is 10 * chinese_chars > 3 * total_chars.
detect_language(text) ==
    LET chinese_chars == CountIf(text, CJK_FIRST, CJK_LAST)
        total_chars == Len(text) - CountIf(text, SPACE, SPACE)
    IN  IF total_chars = 0 THEN CHINESE
        ELSE IF 10 * chinese_chars > 3 * total_chars THEN CHINESE ELSE ENGLISH

\* PromptTemplate.get
\* A faulty variant of the lookup below: the Chinese text whatever the language.
TemplateGet_ChineseOnly(template, lang) == template.zh

TemplateGet(template, lang) == IF lang = CHINESE THEN template.zh ELSE template.en

DEFAULT_SYSTEM_PROMPT == [zh |-> "SYSTEM_PROMPT_ZH", en |-> "SYSTEM_PROMPT_EN"]

\* ERROR_MESSAGES: each template is its text parts, a placeholder being the
\* part "{name}".  A Chinese text is written zh[...] around its English reading.
ERROR_MESSAGES ==
    [field_not_found |->
        [zh |-> <<"zh[Field ]", "{field_id}", "zh[ not found. Please check if the field ID is correct.]">>,
         en |-> <<"Field ", "{field_id}", " not found. Please check if the field ID is correct.">>],
     category_not_found |->
        [zh |-> <<"zh[Category ']", "{category}", "zh[' not found. Please use get_all_categories to view available categories.]">>,
         en |-> <<"Category '", "{category}", "' not found. Please use get_all_categories to view available categories.">>],
     encoding_not_found |->
        [zh |-> <<"zh[Encoding ]", "{encoding_id}", "zh[ not found. Please check if the encoding ID is correct.]">>,
         en |-> <<"Encoding ", "{encoding_id}", " not found. Please check if the encoding ID is correct.">>],
     api_error |->
        [zh |-> <<"zh[API call failed: ]", "{error}", "zh[. Please try again later.]">>,
         en |-> <<"API call failed: ", "{error}", ". Please try again later.">>],
     rate_limit_exceeded |->
        [zh |-> <<"zh[Rate limit exceeded. Please try again later.]">>,
         en |-> <<"Rate limit exceeded. Please try again later.">>]]

\* str.format with one keyword argument: the placeholder part is replaced by
\* the parts of the value.
RECURSIVE Format(_, _, _)
Format(template, placeholder, value) ==
    IF template = <<>> THEN <<>>
    ELSE (IF Head(template) = placeholder THEN value ELSE <<Head(template)>>)
         \o Format(Tail(template), placeholder, value)

\* get_error_message(error_type, language, **kwargs), for the error types of
\* ERROR_MESSAGES.
get_error_message(error_type, lang, placeholder, value) ==
    Format(TemplateGet(ERROR_MESSAGES[error_type], lang), placeholder, value)

\* convert_error_to_response(error, language)
convert_error_to_response(error, lang_value) ==
    LET lang == IF lang_value = "zh" THEN CHINESE ELSE ENGLISH
        user_message ==
            CASE error.cls = "FieldNotFoundError" ->
                    get_error_message("field_not_found", lang, "{field_id}",
                                      <<error.details.field_id>>)
              [] error.cls = "EncodingNotFoundError" ->
                    get_error_message("encoding_not_found", lang, "{encoding_id}",
                                      <<error.details.encoding_id>>)
              [] error.cls = "CategoryNotFoundError" ->
                    get_error_message("category_not_found", lang, "{category}",
                                      <<error.details.category_name>>)
              [] error.cls = "RateLimitError" ->
                    get_error_message("rate_limit_exceeded", lang, "{}", <<>>)
              [] OTHER ->
                    get_error_message("api_error", lang, "{error}", error.message)
    IN  [ok |-> FALSE, error |-> error.error_code, message |-> user_message,
         details |-> error.details]

(***************************************************************************)
(* JSON values and texts.                                                  *)
(***************************************************************************)
Malformed == [type |-> "Malformed"]
Object(keys) == [type |-> "object", keys |-> keys]       \* a dict, by its keys
ErrorObject(text) == [type |-> "object", error |-> text] \* {"error": text}
NoneValue == [type |-> "None"]

\* json.dumps(v): the text that serializes v.
json_dumps(v) == [type |-> "str", json |-> v]

\* json.loads(s): the value the text serializes, or JSONDecodeError.
json_loads(s) ==
    IF s.json = Malformed
    THEN Raise(BuiltinError("JSONDecodeError", <<"Expecting property name enclosed in double quotes">>))
    ELSE Return(s.json)

IsString(v) == v.type = "str"

(***************************************************************************)
(* agents/ukb_agent.py: the tool descriptors and the dispatch table.       *)
(***************************************************************************)
\* UKBAgent.tools_schema: name -> properties and required keys.
tools_schema ==
    [explain_field_by_id |->
        [properties |-> {"field_id"}, required |-> {"field_id"}],
     search_fields_by_keyword |->
        [properties |-> {"keyword", "limit"}, required |-> {"keyword"}],
     get_category_fields |->
        [properties |-> {"category_name", "limit"}, required |-> {"category_name"}],
     get_encoding_values |->
        [properties |-> {"encoding_id", "limit"}, required |-> {"encoding_id"}],
     recommend_related_fields |->
        [properties |-> {"field_id", "limit"}, required |-> {"field_id"}],
     get_all_categories |->
        [properties |-> {}, required |-> {}],
     get_recommended_fields |->
        [properties |-> {"category_name", "limit"}, required |-> {}]]

\* A faulty variant of the table below: get_recommended_fields is advertised
\* but has no handler.
tools_dispatch_Incomplete ==
    {"explain_field_by_id", "search_fields_by_keyword", "get_category_fields",
     "get_encoding_values", "recommend_related_fields", "get_all_categories"}

\* UKBAgent.tools_dispatch: the names that have a handler.
tools_dispatch ==
    {"explain_field_by_id", "search_fields_by_keyword", "get_category_fields",
     "get_encoding_values", "recommend_related_fields", "get_all_categories",
     "get_recommended_fields"}

\* inspect.signature(handler) of the lookup functions of ukb_tools: the
\* parameters, and those without a default.
Signature(tool_name) ==
    [parameters |-> tools_schema[tool_name].properties,
     required |-> tools_schema[tool_name].required]

\* The typed not-found error a lookup raises.
ToolDomainError(tool_name) ==
    CASE tool_name \in {"explain_field_by_id", "recommend_related_fields"} ->
            FieldNotFoundError("31")
      [] tool_name = "get_encoding_values" -> EncodingNotFoundError("9")
      [] OTHER -> CategoryNotFoundError("Population characteristics")

\* The JSON-serializable structure a lookup returns.
ToolValue(tool_name) == [type |-> "object", tool |-> tool_name]

\* What the tool provider does when it is invoked.
ToolBehaviours == {"returns", "raises"}

\* handler(**valid_args): a keyword that is no parameter is a TypeError, a
\* missing parameter without default is a TypeError,
\* otherwise the lookup returns its structure or raises its not-found error.
InvokeHandler(tool_name, valid_args, behaviour) ==
    IF ~(valid_args \subseteq Signature(tool_name).parameters)
    THEN Raise(BuiltinError("TypeError", <<tool_name, "() got an unexpected keyword argument">>))
    ELSE IF ~(Signature(tool_name).required \subseteq valid_args)
    THEN Raise(BuiltinError("TypeError", <<tool_name, "() missing required positional argument">>))
    ELSE IF behaviour = "raises" THEN Raise(ToolDomainError(tool_name))
    ELSE Return(ToolValue(tool_name))

\* A faulty variant of the filter below: the bundle is passed on whole.
valid_args_Unfiltered(tool_name, tool_args) == tool_args.keys

\* {k: v for k, v in tool_args.items() if k in sig.parameters}
valid_args(tool_name, tool_args) ==
    tool_args.keys \cap Signature(tool_name).parameters

\* A faulty variant of the body below: an exception of the handler call
\* leaves _execute_tool as it is, without the wrapping of the except clause.
execute_tool_body_Unwrapped(tool_name, tool_args, behaviour) ==
    IF tool_name \notin tools_dispatch
    THEN Raise(ToolExecutionError(tool_name, <<"Tool '", tool_name, "' not found">>))
    ELSE IF tool_args.type # "object"
    THEN Raise(BuiltinError("AttributeError", <<"object has no attribute 'items'">>))
    ELSE InvokeHandler(tool_name, valid_args(tool_name, tool_args), behaviour)

\* UKBAgent._execute_tool without its decorator.
execute_tool_body(tool_name, tool_args, behaviour) ==
    IF tool_name \notin tools_dispatch
    THEN Raise(ToolExecutionError(tool_name, <<"Tool '", tool_name, "' not found">>))
    ELSE LET attempt ==
                 IF tool_args.type # "object"
                 THEN Raise(BuiltinError("AttributeError", <<"object has no attribute 'items'">>))
                 ELSE InvokeHandler(tool_name, valid_args(tool_name, tool_args),
                                    behaviour)
         IN  IF attempt.kind = "raise"
             THEN Raise(ToolExecutionError(tool_name, StrOf(attempt.exc)))
             ELSE attempt

\* UKBAgent._execute_tool
_execute_tool(tool_name, tool_args, behaviour) ==
    handle_exceptions(None, "_execute_tool", execute_tool_body(tool_name, tool_args, behaviour))

\* Whether _execute_tool reaches the handler call with these arguments.
InvokesHandler(tool_name, tool_args) ==
    /\ tool_name \in tools_dispatch
    /\ tool_args.type = "object"
    /\ Signature(tool_name).required \subseteq tool_args.keys

(***************************************************************************)
(* api/client.py: the rate limiter and the transport.                      *)
(***************************************************************************)
\* A faulty variant of the pruning below: a timestamp exactly WINDOW old is kept.
Fresh_KeepsBoundary(reqs, t) == SelectSeq(reqs, LAMBDA req_time : t - req_time <= WINDOW)

\* [req_time for req_time in self._requests if now - req_time < 60]
Fresh(reqs, t) == SelectSeq(reqs, LAMBDA req_time : t - req_time < WINDOW)

\* A faulty variant of the limiter below: > where the code has >=.
_check_rate_limit_OffByOne(reqs, t, enabled, limit) ==
    IF ~enabled THEN [requests |-> reqs, outcome |-> Return(None)]
    ELSE IF Len(Fresh(reqs, t)) > limit
    THEN [requests |-> Fresh(reqs, t),
          outcome |-> Raise(RateLimitError(
              <<"Rate limit exceeded. Maximum ", "{rate_limit}", " requests per minute.">>,
              RETRY_AFTER))]
    ELSE [requests |-> Append(Fresh(reqs, t), t), outcome |-> Return(None)]

\* A faulty variant of the limiter below: the timestamp is recorded before the
\* test, so a rejected request is recorded too.
_check_rate_limit_RecordsRejected(reqs, t, enabled, limit) ==
    IF ~enabled THEN [requests |-> reqs, outcome |-> Return(None)]
    ELSE IF Len(Fresh(reqs, t)) >= limit
    THEN [requests |-> Append(Fresh(reqs, t), t),
          outcome |-> Raise(RateLimitError(
              <<"Rate limit exceeded. Maximum ", "{rate_limit}", " requests per minute.">>,
              RETRY_AFTER))]
    ELSE [requests |-> Append(Fresh(reqs, t), t), outcome |-> Return(None)]

\* A faulty variant of the limiter below: the switch of the settings is not
\* looked at.
_check_rate_limit_IgnoresSwitch(reqs, t, enabled, limit) ==
    IF Len(Fresh(reqs, t)) >= limit
    THEN [requests |-> Fresh(reqs, t),
          outcome |-> Raise(RateLimitError(
              <<"Rate limit exceeded. Maximum ", "{rate_limit}", " requests per minute.">>,
              RETRY_AFTER))]
    ELSE [requests |-> Append(Fresh(reqs, t), t), outcome |-> Return(None)]

\* GLMClient._check_rate_limit: the new _requests and whether it raised.
_check_rate_limit(reqs, t, enabled, limit) ==
    IF ~enabled THEN [requests |-> reqs, outcome |-> Return(None)]
    ELSE IF Len(Fresh(reqs, t)) >= limit
    THEN [requests |-> Fresh(reqs, t),
          outcome |-> Raise(RateLimitError(
              <<"Rate limit exceeded. Maximum ", "{rate_limit}", " requests per minute.">>,
              RETRY_AFTER))]
    ELSE [requests |-> Append(Fresh(reqs, t), t), outcome |-> Return(None)]

\* The phrases chat_completion looks for in the lower-cased text of a remote
\* exception; such a text is modelled by the set of phrases it contains.
Phrases == {"rate limit", "invalid api key", "model not found"}

\* The fragments a remote exception's text is made of here: the phrases, the
\* same in another case, and a fragment with none of them.
CasedPhrases ==
    Phrases \cup {"Rate Limit", "Invalid API Key", "Model Not Found", "Connection Reset"}

\* str(e) of a remote exception with the given fragments, in a fixed order.
RemoteErrorText(phrases) ==
    <<"remote error">>
    \o (IF "Connection Reset" \in phrases THEN <<"Connection Reset">> ELSE <<>>)
    \o (IF "model not found" \in phrases THEN <<"model not found">> ELSE <<>>)
    \o (IF "Model Not Found" \in phrases THEN <<"Model Not Found">> ELSE <<>>)
    \o (IF "invalid api key" \in phrases THEN <<"invalid api key">> ELSE <<>>)
    \o (IF "Invalid API Key" \in phrases THEN <<"Invalid API Key">> ELSE <<>>)
    \o (IF "rate limit" \in phrases THEN <<"rate limit">> ELSE <<>>)
    \o (IF "Rate Limit" \in phrases THEN <<"Rate Limit">> ELSE <<>>)

\* str.lower() of one fragment.
Lower(part) ==
    CASE part = "Rate Limit" -> "rate limit"
      [] part = "Invalid API Key" -> "invalid api key"
      [] part = "Model Not Found" -> "model not found"
      [] part = "Connection Reset" -> "connection reset"
      [] OTHER -> part

\* phrase in str(e).lower()
InLowered(phrase, text) == \E i \in DOMAIN text : Lower(text[i]) = phrase

\* A faulty variant of the mapping below: the text is searched as it is,
\* without lower().
MapRemoteError_CaseSensitive(phrases) ==
    LET text == RemoteErrorText(phrases)
        In(phrase) == \E i \in DOMAIN text : text[i] = phrase
    IN  IF In("rate limit") THEN RateLimitError(<<"API rate limit exceeded">>, 0)
        ELSE IF In("invalid api key") THEN APIError(<<"Invalid API key">>, "GLM")
        ELSE IF In("model not found")
        THEN APIError(<<"Model '", "{model}", "' not found">>, "GLM")
        ELSE APIError(<<"GLM API request failed: ">> \o text, "GLM")

\* The except branch of chat_completion: the typed error for a remote exception.
MapRemoteError(phrases) ==
    LET text == RemoteErrorText(phrases)
    IN  IF InLowered("rate limit", text)
        THEN RateLimitError(<<"API rate limit exceeded">>, 0)
        ELSE IF InLowered("invalid api key", text)
        THEN APIError(<<"Invalid API key">>, "GLM")
        ELSE IF InLowered("model not found", text)
        THEN APIError(<<"Model '", "{model}", "' not found">>, "GLM")
        ELSE APIError(<<"GLM API request failed: ">> \o text, "GLM")

\* A faulty variant of the function below: the limiter is asked only when it
\* holds no timestamp, once per query and not once per request.
chat_completion_OncePerQuery(reqs, t, enabled, limit, remote) ==
    LET check == IF reqs = <<>> THEN _check_rate_limit(reqs, t, enabled, limit)
                 ELSE [requests |-> reqs, outcome |-> Return(None)]
    IN  IF check.outcome.kind = "raise"
        THEN [requests |-> check.requests, remote_called |-> FALSE,
              outcome |-> handle_exceptions(None, "chat_completion", check.outcome)]
        ELSE [requests |-> check.requests, remote_called |-> TRUE,
              outcome |-> handle_exceptions(None, "chat_completion",
                  IF remote.kind = "error" THEN Raise(MapRemoteError(remote.phrases))
                  ELSE Return(remote.message))]

\* GLMClient.chat_completion: remote is what the endpoint would do,
\* [kind |-> "response", message |-> m] or [kind |-> "error", phrases |-> S].
\* The result: the new _requests, whether the endpoint was called, the outcome.
chat_completion(reqs, t, enabled, limit, remote) ==
    LET check == _check_rate_limit(reqs, t, enabled, limit)
    IN  IF check.outcome.kind = "raise"
        THEN [requests |-> check.requests, remote_called |-> FALSE,
              outcome |-> handle_exceptions(None, "chat_completion", check.outcome)]
        ELSE [requests |-> check.requests, remote_called |-> TRUE,
              outcome |-> handle_exceptions(None, "chat_completion",
                  IF remote.kind = "error" THEN Raise(MapRemoteError(remote.phrases))
                  ELSE Return(remote.message))]

\* A faulty variant of the function below: the language is detected from the
\* query again, whatever tag was passed.
build_messages_Redetect(query, system_prompt, lang) ==
    LET prompt == IF system_prompt = None
                  THEN TemplateGet(DEFAULT_SYSTEM_PROMPT, detect_language(query))
                  ELSE system_prompt
    IN  << [role |-> "system", content |-> prompt],
           [role |-> "user", content |-> query] >>

\* GLMClient.build_messages
build_messages(query, system_prompt, lang) ==
    LET lang1 == IF lang = None THEN detect_language(query) ELSE lang
        prompt == IF system_prompt = None
                  THEN TemplateGet(DEFAULT_SYSTEM_PROMPT, lang1)
                  ELSE system_prompt
    IN  << [role |-> "system", content |-> prompt],
           [role |-> "user", content |-> query] >>

\* GLMClient.__init__: the key check, then the SDK client's constructor.
GLMClientInit(api_key, sdk) ==
    IF api_key = "" \/ api_key = "your-api-key-here"
    THEN Raise(APIError(<<"GLM API key is not configured properly">>, None))
    ELSE IF sdk = "raises"
    THEN Raise(BuiltinError("Exception", <<"ZhipuAiClient could not be created">>))
    ELSE Return("GLMClient")

(***************************************************************************)
(* agents/ukb_agent.py: the pieces of UKBAgent.run and run_agent_safe.     *)
(***************************************************************************)
\* A faulty variant of the line below: message.content without the or "".
ContentOrEmpty_NoDefault(content) == content

\* message.content or ""
ContentOrEmpty(content) == IF content = None \/ content = "" THEN "" ELSE content

\* tool_call.function.arguments or {}, then json.loads when it is a str.
ParseArguments(arguments) ==
    IF arguments.type = "None" \/ (arguments.type = "object" /\ arguments.keys = {})
    THEN Return(Object({}))
    ELSE IF arguments.type = "str" THEN json_loads(arguments)
    ELSE Return(arguments)

\* The tool_result of the inner try/except around _execute_tool.
ToolResult(executed) ==
    IF executed.kind = "raise"
    THEN json_dumps(ErrorObject(<<executed.exc.cls, ": ">> \o StrOf(executed.exc)))
    ELSE executed.value

\* A faulty variant of the message below: every tool message of a turn
\* carries the id of the turn's first call.
ToolMessage_FirstId(tool_call, tool_result) ==
    [role |-> "tool", tool_call_id |-> [tool_call.id EXCEPT !.index = 1],
     name |-> tool_call.function.name, content |-> tool_result]

\* The tool-role message appended for a call.
ToolMessage(tool_call, tool_result) ==
    [role |-> "tool", tool_call_id |-> tool_call.id,
     name |-> tool_call.function.name, content |-> tool_result]

\* A faulty variant of the pass below, without the inner try: an exception of
\* _execute_tool leaves the loop body.
ProcessCall_Propagates(tool_call, behaviour) ==
    LET parsed == ParseArguments(tool_call.function.arguments)
        result == IF parsed.kind = "raise" THEN parsed
                  ELSE _execute_tool(tool_call.function.name, parsed.value, behaviour)
    IN  IF result.kind = "raise" THEN result
        ELSE Return(ToolMessage(tool_call, ToolResult(result)))

\* One pass of the body of "for tool_call in message.tool_calls": the message
\* to append, or the exception that leaves the loop body.
ProcessCall(tool_call, behaviour) ==
    LET parsed == ParseArguments(tool_call.function.arguments)
    IN  IF parsed.kind = "raise" THEN parsed
        ELSE Return(ToolMessage(tool_call,
                 ToolResult(_execute_tool(tool_call.function.name, parsed.value, behaviour))))

\* The assistant-role message appended after the tool calls of a turn.
AssistantMessage(m) == [role |-> "assistant", content |-> ContentOrEmpty(m.content)]

\* The return value after the for loop is exhausted.
ExhaustionMessage(lang) ==
    IF lang = CHINESE THEN "zh[Too many conversation rounds, please simplify your question.]"
    ELSE "Too many conversation rounds, please simplify your question."

\* A faulty variant of the wrapper below: the success envelope carries the
\* default tag "zh" in place of the language of the query.
run_agent_safe_result_DefaultTag(query, lang, outcome) ==
    IF outcome.kind = "return"
    THEN [envelope |-> [ok |-> TRUE, query |-> query, answer |-> outcome.value,
                        language |-> "zh"],
          escaped |-> NoneValue]
    ELSE IF IsUKBSearchException(outcome.exc)
    THEN [envelope |-> convert_error_to_response(outcome.exc,
                           IF lang = None THEN "zh" ELSE lang),
          escaped |-> NoneValue]
    ELSE [envelope |-> [ok |-> FALSE, error |-> "UNEXPECTED_ERROR",
                        message |-> <<"An unexpected error occurred. Please try again later.">>,
                        details |-> [error |-> StrOf(outcome.exc)]],
          escaped |-> NoneValue]

\* A faulty variant of the wrapper below: only UKBSearchException is caught.
run_agent_safe_result_NoCatchAll(query, lang, outcome) ==
    IF outcome.kind = "return"
    THEN [envelope |-> [ok |-> TRUE, query |-> query, answer |-> outcome.value,
                        language |-> lang],
          escaped |-> NoneValue]
    ELSE IF IsUKBSearchException(outcome.exc)
    THEN [envelope |-> convert_error_to_response(outcome.exc,
                           IF lang = None THEN "zh" ELSE lang),
          escaped |-> NoneValue]
    ELSE [envelope |-> NoneValue, escaped |-> outcome.exc]

\* The try/except of run_agent_safe around run_agent: the envelope returned
\* and the exception that leaves run_agent_safe (NoneValue: none does).
run_agent_safe_result(query, lang, outcome) ==
    IF outcome.kind = "return"
    THEN [envelope |-> [ok |-> TRUE, query |-> query, answer |-> outcome.value,
                        language |-> lang],
          escaped |-> NoneValue]
    ELSE IF IsUKBSearchException(outcome.exc)
    THEN [envelope |-> convert_error_to_response(outcome.exc,
                           IF lang = None THEN "zh" ELSE lang),
          escaped |-> NoneValue]
    ELSE [envelope |-> [ok |-> FALSE, error |-> "UNEXPECTED_ERROR",
                        message |-> <<"An unexpected error occurred. Please try again later.">>,
                        details |-> [error |-> StrOf(outcome.exc)]],
          escaped |-> NoneValue]

(***************************************************************************)
(* The environment: queries, and what the remote model may answer.         *)
(***************************************************************************)
\* "What does field 31 mean?", and the two CJK characters of "field" before 31.
EnglishQuery ==
    <<87, 104, 97, 116, 32, 100, 111, 101, 115, 32, 102, 105, 101, 108, 100, 32,
      51, 49, 32, 109, 101, 97, 110, 63>>
Queries == { EnglishQuery, <<23383, 27573, 51, 49>> }
SystemPrompts == {None, "custom prompt"}
ApiKeys == {"", "your-api-key-here", "sk-key"}
RateLimits == (0..MaxRateLimit) \cup {DEFAULT_RATE_LIMIT}

Contents == {None, "", "answer"}
PlainArguments == json_dumps(Object({"field_id"}))
PlainCall == [name |-> "explain_field_by_id", arguments |-> PlainArguments]
CallMenu ==
    { PlainCall,
      [name |-> "lookup_gene", arguments |-> PlainArguments],
      [name |-> "explain_field_by_id", arguments |-> json_dumps(Malformed)] }

\* The tool calls of a response of turn number turn: calls with their ids.
ToolCalls(turn, calls) ==
    [i \in 1..Len(calls) |-> [id |-> [turn |-> turn, index |-> i], function |-> calls[i]]]

CallSeqs == { calls \in UNION { [1..n -> CallMenu] : n \in 1..MaxCalls } : calls # <<>> }

\* A plain tool turn is one plain call and no text.  Cost counts what a
\* response has beyond that and lets the run go on: a text, a further call, a
\* call that is not the plain one.  A call whose arguments do not parse ends
\* the run and costs nothing, and so does a response without tool calls.
CallCost(call) ==
    IF call = PlainCall \/ call.arguments = json_dumps(Malformed) THEN 0 ELSE 1

Cost(content, calls) ==
    (IF content # None THEN 1 ELSE 0) + (Len(calls) - 1)
    + Cardinality({i \in 1..Len(calls) : CallCost(calls[i]) = 1})

\* What the endpoint may do at a request: raise an exception whose text holds
\* the given phrases, answer without tool calls, or answer with tool calls
\* within the budget.
RemoteOutcomes(turn, budget, texts) ==
    { [kind |-> "error", phrases |-> ph] : ph \in texts }
    \cup { [kind |-> "response", message |-> [content |-> c, tool_calls |-> <<>>]] :
             c \in Contents }
    \cup { [kind |-> "response",
            message |-> [content |-> cc[1], tool_calls |-> ToolCalls(turn, cc[2])]] :
             cc \in { x \in {None, "answer"} \X CallSeqs : Cost(x[1], x[2]) <= budget } }

\* The texts of remote exceptions tried inside a query: no phrase, or one.
QueryErrorTexts == {{}} \cup {{p} : p \in Phrases}

NoMessage == [content |-> None, tool_calls |-> <<>>]
NoOutcome == [kind |-> "none"]

\* The observation log: the language and system_prompt arguments of the
\* query, counters of the current query, the responses received,
\* the time of every request an enabled limiter let through to the endpoint
\* (never pruned), and the last
\* chat_completion call: how many admitted timestamps were less than WINDOW
\* old when it was made, the error code it raised (None: it returned) and
\* whether it called the endpoint.
NoHist == [llm_requests |-> 0, remote_calls |-> 0, dispatches |-> 0,
           transport_failed |-> FALSE, responses |-> <<>>,
           admitted |-> <<>>, last_call |-> NoneValue,
           language_arg |-> None, system_prompt_arg |-> None]

CountFresh(times, t) == Cardinality({i \in DOMAIN times : t - times[i] < WINDOW})

LogCall(h, t, r) ==
    [h EXCEPT
       !.llm_requests = @ + 1,
       !.remote_calls = @ + (IF r.remote_called THEN 1 ELSE 0),
       !.transport_failed = (r.outcome.kind = "raise"),
       !.responses = IF r.outcome.kind = "raise" THEN @ ELSE Append(@, r.outcome.value),
       !.admitted = IF enable_rate_limiting /\ r.remote_called
                    THEN Append(@, t) ELSE @,
       !.last_call = [fresh |-> CountFresh(h.admitted, t),
                      error |-> IF r.outcome.kind = "raise"
                                THEN r.outcome.exc.error_code ELSE None,
                      remote_called |-> r.remote_called]]

(***************************************************************************)
(* The state machine.                                                      *)
(***************************************************************************)
Init ==
    /\ glm_api_key \in ApiKeys
    /\ debug = TRUE
    /\ enable_rate_limiting \in BOOLEAN
    /\ rate_limit \in (IF enable_rate_limiting THEN RateLimits ELSE {DEFAULT_RATE_LIMIT})
    /\ _requests = <<>>
    /\ now = 0
    /\ _global_client = None
    /\ _global_agent = None
    /\ pc = "INIT"
    /\ user_query = <<>>
    /\ language = None
    /\ messages = <<>>
    /\ iteration = 0
    /\ message = NoMessage
    /\ call_index = 0
    /\ envelope = NoneValue
    /\ escaped = NoneValue
    /\ run_outcome = NoOutcome
    /\ deviations = 0
    /\ hist = NoHist
    /\ threads = <<>>

\* A faulty variant of the step below: an exception in the loop body is
\* swallowed and the loop asks the model again.
Finish_Retry(state, query, lang, outcome) ==
    IF outcome.kind = "raise"
    THEN /\ pc' = "AWAITING_MODEL"
         /\ UNCHANGED <<run_outcome, envelope, escaped>>
    ELSE LET out == handle_exceptions(None, "run", outcome)
             res == run_agent_safe_result(query, lang, out)
         IN  /\ pc' = state
             /\ run_outcome' = out
             /\ envelope' = res.envelope
             /\ escaped' = res.escaped

\* UKBAgent.run returns or raises, and run_agent_safe returns its envelope.
Finish(state, query, lang, outcome) ==
    LET out == handle_exceptions(None, "run", outcome)
        res == run_agent_safe_result(query, lang, out)
    IN  /\ pc' = state
        /\ run_outcome' = out
        /\ envelope' = res.envelope
        /\ escaped' = res.escaped

\* run_agent_safe(query, system_prompt, lang) up to the first LLM request:
\* language resolution, get_agent() with the lazy construction of the agent
\* and the client, and the initial transcript of UKBAgent.run.
RunAgentSafeWith(queries, system_prompts, languages) ==
    /\ pc = "INIT"
    /\ \E query \in queries, system_prompt \in system_prompts,
          lang \in languages, sdk \in {"ok", "raises"} :
         LET lang1 == IF lang = None THEN detect_language(query) ELSE lang
             client == IF _global_client = None THEN GLMClientInit(glm_api_key, sdk)
                       ELSE Return(_global_client)
         IN  /\ user_query' = query
             /\ language' = lang1
             /\ hist' = [hist EXCEPT !.language_arg = lang,
                                     !.system_prompt_arg = system_prompt]
             /\ IF _global_agent = None /\ client.kind = "raise"
                THEN LET res == run_agent_safe_result(query, lang1, client)
                     IN  /\ pc' = "DONE_ERROR"
                         /\ envelope' = res.envelope
                         /\ escaped' = res.escaped
                         /\ UNCHANGED <<_global_client, _global_agent, messages>>
                ELSE /\ pc' = "AWAITING_MODEL"
                     /\ _global_client' = IF _global_agent = None THEN client.value
                                          ELSE _global_client
                     /\ _global_agent' = "UKBAgent"
                     /\ messages' = build_messages(query, system_prompt, lang1)
                     /\ UNCHANGED <<envelope, escaped>>
    /\ UNCHANGED <<threads, glm_api_key, debug, enable_rate_limiting, rate_limit, _requests, now,
                   iteration, message, call_index, run_outcome, deviations>>

\* One LLM request of the loop: self.client.chat_completion(messages, tools),
\* then the test for tool calls; outcomes is what the endpoint may do.
ChatCompletionWith(outcomes) ==
    /\ pc = "AWAITING_MODEL"
    /\ \E remote \in outcomes :
         LET r == chat_completion(_requests, now, enable_rate_limiting, rate_limit, remote)
             m == r.outcome.value
         IN  /\ _requests' = r.requests
             /\ hist' = LogCall(hist, now, r)
             /\ IF r.outcome.kind = "raise"
                THEN /\ Finish("DONE_ERROR", user_query, language, r.outcome)
                     /\ UNCHANGED <<message, call_index, deviations>>
                ELSE IF m.tool_calls = <<>>
                THEN /\ Finish("DONE_SUCCESS", user_query, language,
                                Return(ContentOrEmpty(m.content)))
                     /\ UNCHANGED <<message, call_index, deviations>>
                ELSE /\ pc' = "DISPATCHING_TOOLS"
                     /\ message' = m
                     /\ call_index' = 1
                     /\ deviations' = deviations
                             + Cost(m.content, [i \in 1..Len(m.tool_calls) |->
                                                   m.tool_calls[i].function])
                     /\ UNCHANGED <<envelope, escaped, run_outcome>>
    /\ UNCHANGED <<threads, glm_api_key, debug, enable_rate_limiting, rate_limit, now,
                   _global_client, _global_agent, user_query, language, messages,
                   iteration>>

\* The language argument of run_agent_safe: a tag, or None (the default).
LanguageArguments == {None, CHINESE, ENGLISH}

\* run_agent_safe called with any query, system prompt and language.
RunAgentSafe == RunAgentSafeWith(Queries, SystemPrompts, LanguageArguments)

\* An LLM request answered by any endpoint within the budget.
ChatCompletion ==
    ChatCompletionWith(RemoteOutcomes(iteration + 1, MaxDeviations - deviations,
                                      QueryErrorTexts))

\* One tool call of the turn: argument parsing, dispatch, the tool message.
DispatchTool ==
    /\ pc = "DISPATCHING_TOOLS"
    /\ call_index <= Len(message.tool_calls)
    /\ LET tool_call == message.tool_calls[call_index]
           parsed == ParseArguments(tool_call.function.arguments)
           invoked == /\ parsed.kind = "return"
                      /\ InvokesHandler(tool_call.function.name, parsed.value)
       IN  \E behaviour \in ToolBehaviours :
             /\ behaviour = "raises" => (invoked /\ deviations < MaxDeviations)
             /\ LET step == ProcessCall(tool_call, behaviour)
                IN  /\ deviations' = deviations + (IF behaviour = "raises" THEN 1 ELSE 0)
                    /\ hist' = [hist EXCEPT !.dispatches =
                                   @ + (IF parsed.kind = "return" THEN 1 ELSE 0)]
                    /\ IF step.kind = "raise"
                       THEN /\ Finish("DONE_ERROR", user_query, language, step)
                            /\ UNCHANGED <<messages, call_index>>
                       ELSE /\ messages' = Append(messages, step.value)
                            /\ call_index' = call_index + 1
                            /\ UNCHANGED <<pc, envelope, escaped, run_outcome>>
    /\ UNCHANGED <<threads, glm_api_key, debug, enable_rate_limiting, rate_limit, _requests, now,
                   _global_client, _global_agent, user_query, language, iteration,
                   message>>

\* A faulty variant of the step below: the turn is never closed, the loop
\* variable does not advance.
EndTurn_NoAdvance ==
    /\ pc = "DISPATCHING_TOOLS"
    /\ call_index > Len(message.tool_calls)
    /\ UNCHANGED vars

\* A faulty variant of the step below: the loop runs one iteration more than
\* max_iterations.
EndTurn_OneMore ==
    /\ pc = "DISPATCHING_TOOLS"
    /\ call_index > Len(message.tool_calls)
    /\ messages' = Append(messages, AssistantMessage(message))
    /\ iteration' = iteration + 1
    /\ message' = NoMessage
    /\ call_index' = 0
    /\ IF iteration + 1 <= max_iterations
       THEN /\ pc' = "AWAITING_MODEL"
            /\ UNCHANGED <<envelope, escaped, run_outcome>>
       ELSE Finish("DONE_EXHAUSTED", user_query, language,
                   Return(ExhaustionMessage(language)))
    /\ UNCHANGED <<threads, glm_api_key, debug, enable_rate_limiting, rate_limit, _requests, now,
                   _global_client, _global_agent, user_query, language,
                   deviations, hist>>

\* A faulty variant of the step below: the turn is closed as soon as one call
\* has been processed, the remaining calls of the response are dropped.
EndTurn_Early ==
    /\ pc = "DISPATCHING_TOOLS"
    /\ call_index > 1
    /\ messages' = Append(messages, AssistantMessage(message))
    /\ iteration' = iteration + 1
    /\ message' = NoMessage
    /\ call_index' = 0
    /\ IF iteration + 1 < max_iterations
       THEN /\ pc' = "AWAITING_MODEL"
            /\ UNCHANGED <<envelope, escaped, run_outcome>>
       ELSE Finish("DONE_EXHAUSTED", user_query, language,
                   Return(ExhaustionMessage(language)))
    /\ UNCHANGED <<threads, glm_api_key, debug, enable_rate_limiting, rate_limit, _requests, now,
                   _global_client, _global_agent, user_query, language,
                   deviations, hist>>

\* A faulty variant of the step below: the tool messages of the turn are
\* taken out of the transcript when the turn is closed.
EndTurn_Compacts ==
    /\ pc = "DISPATCHING_TOOLS"
    /\ call_index > Len(message.tool_calls)
    /\ messages' = Append(SelectSeq(messages, LAMBDA m : m.role # "tool"),
                          AssistantMessage(message))
    /\ iteration' = iteration + 1
    /\ message' = NoMessage
    /\ call_index' = 0
    /\ IF iteration + 1 < max_iterations
       THEN /\ pc' = "AWAITING_MODEL"
            /\ UNCHANGED <<envelope, escaped, run_outcome>>
       ELSE Finish("DONE_EXHAUSTED", user_query, language,
                   Return(ExhaustionMessage(language)))
    /\ UNCHANGED <<threads, glm_api_key, debug, enable_rate_limiting, rate_limit, _requests, now,
                   _global_client, _global_agent, user_query, language,
                   deviations, hist>>

\* The end of a turn: the assistant message, then the next iteration, or the
\* exhaustion message when the for loop is over.
EndTurn ==
    /\ pc = "DISPATCHING_TOOLS"
    /\ call_index > Len(message.tool_calls)
    /\ messages' = Append(messages, AssistantMessage(message))
    /\ iteration' = iteration + 1
    /\ message' = NoMessage
    /\ call_index' = 0
    /\ IF iteration + 1 < max_iterations
       THEN /\ pc' = "AWAITING_MODEL"
            /\ UNCHANGED <<envelope, escaped, run_outcome>>
       ELSE Finish("DONE_EXHAUSTED", user_query, language,
                   Return(ExhaustionMessage(language)))
    /\ UNCHANGED <<threads, glm_api_key, debug, enable_rate_limiting, rate_limit, _requests, now,
                   _global_client, _global_agent, user_query, language,
                   deviations, hist>>

Next == RunAgentSafe \/ ChatCompletion \/ DispatchTool \/ EndTurn

Spec == Init /\ [][Next]_vars

\* One query with default arguments, when every step that can be taken is
\* eventually taken: each transport call and each tool invocation returns or
\* raises, and the interpreter goes on with the next statement.
RunAgentSafeDefaults == RunAgentSafeWith({EnglishQuery}, {None}, {None})

NextLive == RunAgentSafeDefaults \/ ChatCompletion \/ DispatchTool \/ EndTurn

SpecLive == Init /\ [][NextLive]_vars /\ WF_vars(NextLive)

(***************************************************************************)
(* The loop against a stub transport that answers every request with one   *)
(* call of a tool that does not exist.                                     *)
(***************************************************************************)
UnknownCall == [name |-> "lookup_gene", arguments |-> PlainArguments]

UnknownToolOutcomes(turn) ==
    { [kind |-> "response",
       message |-> [content |-> c, tool_calls |-> ToolCalls(turn, <<UnknownCall>>)]] :
         c \in Contents }

ChatCompletionUnknownTool == ChatCompletionWith(UnknownToolOutcomes(iteration + 1))

NextUnknownTool == RunAgentSafe \/ ChatCompletionUnknownTool \/ DispatchTool \/ EndTurn

SpecUnknownTool == Init /\ [][NextUnknownTool]_vars

(***************************************************************************)
(* The client driven directly, with the clock running: a sequence of       *)
(* single_turn_chat calls on one GLMClient.                                *)
(***************************************************************************)
TickSteps == {WINDOW - 1, WINDOW}

InitLimiter ==
    /\ glm_api_key = "sk-key"
    /\ debug = TRUE
    /\ enable_rate_limiting \in BOOLEAN
    /\ rate_limit \in 0..MaxQuota
    /\ _requests = <<>>
    /\ now = 0
    /\ _global_client = "GLMClient"
    /\ _global_agent = None
    /\ pc = "CLIENT"
    /\ user_query = <<>>
    /\ language = None
    /\ messages = <<>>
    /\ iteration = 0
    /\ message = NoMessage
    /\ call_index = 0
    /\ envelope = NoneValue
    /\ escaped = NoneValue
    /\ run_outcome = NoOutcome
    /\ deviations = 0
    /\ hist = NoHist
    /\ threads = <<>>

\* GLMClient.single_turn_chat: build_messages, one chat_completion, the text
\* of the answer.  The transcript and the answer are locals of the call; of
\* the client only _requests changes.
SingleTurnChat ==
    /\ pc = "CLIENT"
    /\ hist.llm_requests < MaxClientCalls
    /\ \E remote \in RemoteOutcomes(1, 0, SUBSET Phrases) :
         LET r == chat_completion(_requests, now, enable_rate_limiting, rate_limit, remote)
         IN  /\ _requests' = r.requests
             /\ hist' = [LogCall(hist, now, r) EXCEPT !.responses = <<>>]
    /\ UNCHANGED <<threads, glm_api_key, debug, enable_rate_limiting, rate_limit, now, _global_client,
                   _global_agent, pc, user_query, language, messages, iteration,
                   message, call_index, envelope, escaped, run_outcome, deviations>>

\* Time passes.
Tick ==
    /\ pc \in {"CLIENT", "THREADS"}
    /\ \E d \in TickSteps :
         /\ now + d <= MaxTime
         /\ now' = now + d
    /\ UNCHANGED <<threads, glm_api_key, debug, enable_rate_limiting, rate_limit, _requests,
                   _global_client, _global_agent, pc, user_query, language, messages,
                   iteration, message, call_index, envelope, escaped, run_outcome,
                   deviations, hist>>

NextLimiter == SingleTurnChat \/ Tick

SpecLimiter == InitLimiter /\ [][NextLimiter]_vars

(***************************************************************************)
(* One GLMClient shared by concurrent queries: each thread is somewhere in *)
(* chat_completion.  _check_rate_limit takes no lock, so its statements    *)
(* interleave: the clock read (line 52), the list comprehension's read of  *)
(* self._requests and the store of its result (line 54), the length test  *)
(* (line 56) and the append (line 62).                                     *)
(***************************************************************************)
IdleThread == [pc |-> "idle", now |-> 0, fresh |-> <<>>]

InitThreads ==
    /\ glm_api_key = "sk-key"
    /\ debug = TRUE
    /\ enable_rate_limiting \in BOOLEAN
    /\ rate_limit \in 0..MaxQuota
    /\ _requests = <<>>
    /\ now = 0
    /\ _global_client = "GLMClient"
    /\ _global_agent = None
    /\ pc = "THREADS"
    /\ user_query = <<>>
    /\ language = None
    /\ messages = <<>>
    /\ iteration = 0
    /\ message = NoMessage
    /\ call_index = 0
    /\ envelope = NoneValue
    /\ escaped = NoneValue
    /\ run_outcome = NoOutcome
    /\ deviations = 0
    /\ hist = NoHist
    /\ threads = [t \in 1..MaxThreads |-> IdleThread]

\* What a step of the shared client leaves alone besides _requests, hist and
\* threads.
ThreadFrame ==
    UNCHANGED <<glm_api_key, debug, enable_rate_limiting, rate_limit, now, _global_client,
                _global_agent, pc, user_query, language, messages, iteration,
                message, call_index, envelope, escaped, run_outcome, deviations>>

\* chat_completion is entered; with limiting enabled _check_rate_limit reads
\* the clock, otherwise it returns at once.
ThreadEnter ==
    /\ pc = "THREADS"
    /\ hist.llm_requests < MaxThreadCalls
    /\ \E t \in DOMAIN threads :
         /\ threads[t].pc = "idle"
         /\ threads' = [threads EXCEPT ![t] =
                IF enable_rate_limiting
                THEN [pc |-> "prune_read", now |-> now, fresh |-> <<>>]
                ELSE [IdleThread EXCEPT !.pc = "remote"]]
    /\ hist' = [hist EXCEPT !.llm_requests = @ + 1]
    /\ UNCHANGED _requests
    /\ ThreadFrame

\* The list comprehension of line 54 reads self._requests.
ThreadPruneRead ==
    /\ pc = "THREADS"
    /\ \E t \in DOMAIN threads :
         /\ threads[t].pc = "prune_read"
         /\ threads' = [threads EXCEPT ![t] =
                [@ EXCEPT !.pc = "prune_write", !.fresh = Fresh(_requests, threads[t].now)]]
    /\ UNCHANGED <<_requests, hist>>
    /\ ThreadFrame

\* The result of the list comprehension is stored in self._requests.
ThreadPruneWrite ==
    /\ pc = "THREADS"
    /\ \E t \in DOMAIN threads :
         /\ threads[t].pc = "prune_write"
         /\ _requests' = threads[t].fresh
         /\ threads' = [threads EXCEPT ![t] = [@ EXCEPT !.pc = "test", !.fresh = <<>>]]
    /\ UNCHANGED hist
    /\ ThreadFrame

\* len(self._requests) >= self.rate_limit: RateLimitError leaves
\* chat_completion, otherwise the thread goes on to the append.
ThreadTest ==
    /\ pc = "THREADS"
    /\ \E t \in DOMAIN threads :
         /\ threads[t].pc = "test"
         /\ threads' = [threads EXCEPT ![t] =
                IF Len(_requests) >= rate_limit THEN IdleThread
                ELSE [@ EXCEPT !.pc = "append"]]
    /\ UNCHANGED <<_requests, hist>>
    /\ ThreadFrame

\* self._requests.append(now): the request is admitted.
ThreadAppend ==
    /\ pc = "THREADS"
    /\ \E t \in DOMAIN threads :
         /\ threads[t].pc = "append"
         /\ _requests' = Append(_requests, threads[t].now)
         /\ hist' = [hist EXCEPT !.admitted = Append(@, threads[t].now)]
         /\ threads' = [threads EXCEPT ![t] = [IdleThread EXCEPT !.pc = "remote"]]
    /\ ThreadFrame

\* The call of the endpoint returns or raises, and chat_completion is left.
ThreadRemote ==
    /\ pc = "THREADS"
    /\ \E t \in DOMAIN threads :
         /\ threads[t].pc = "remote"
         /\ threads' = [threads EXCEPT ![t] = IdleThread]
    /\ hist' = [hist EXCEPT !.remote_calls = @ + 1]
    /\ UNCHANGED _requests
    /\ ThreadFrame

NextThreads ==
    \/ ThreadEnter \/ ThreadPruneRead \/ ThreadPruneWrite \/ ThreadTest
    \/ ThreadAppend \/ ThreadRemote \/ Tick

SpecThreads == InitThreads /\ [][NextThreads]_vars

(***************************************************************************)
(* detect_language applied to texts: runs of CJK characters, of other      *)
(* characters, of spaces and of tabs or newlines.                          *)
(***************************************************************************)
TAB == 9
NEWLINE == 10

Repeat(char, n) == [i \in 1..n |-> char]

CjkChars == {CJK_FIRST, 23383, CJK_LAST}
OtherChars == {97, CJK_FIRST - 1, CJK_LAST + 1}
WhitespaceChars == {TAB, NEWLINE}

Texts ==
    { Repeat(w, nw) \o Repeat(c, nc) \o Repeat(SPACE, ns) \o Repeat(o, no) :
        c \in CjkChars, o \in OtherChars, w \in WhitespaceChars,
        nc \in 0..MaxCjk, no \in 0..MaxOther, ns \in 0..MaxSpaces,
        nw \in 0..MaxWhitespace }

InitDetect ==
    /\ glm_api_key = "sk-key"
    /\ debug = TRUE
    /\ enable_rate_limiting = TRUE
    /\ rate_limit = DEFAULT_RATE_LIMIT
    /\ _requests = <<>>
    /\ now = 0
    /\ _global_client = None
    /\ _global_agent = None
    /\ pc = "DETECT"
    /\ user_query \in Texts
    /\ language = None
    /\ messages = <<>>
    /\ iteration = 0
    /\ message = NoMessage
    /\ call_index = 0
    /\ envelope = NoneValue
    /\ escaped = NoneValue
    /\ run_outcome = NoOutcome
    /\ deviations = 0
    /\ hist = NoHist
    /\ threads = <<>>

\* language = detect_language(user_query)
DetectLanguage ==
    /\ pc = "DETECT"
    /\ language' = detect_language(user_query)
    /\ pc' = "DETECTED"
    /\ UNCHANGED <<threads, glm_api_key, debug, enable_rate_limiting, rate_limit, _requests, now,
                   _global_client, _global_agent, user_query, messages, iteration,
                   message, call_index, envelope, escaped, run_outcome, deviations, hist>>

NextDetect == DetectLanguage

SpecDetect == InitDetect /\ [][NextDetect]_vars

(***************************************************************************)
(* _execute_tool called directly with an argument bundle: any set of the   *)
(* schema's keys and of a key no tool knows.                               *)
(***************************************************************************)
ArgumentKeys ==
    UNION {tools_schema[t].properties : t \in DOMAIN tools_schema} \cup {"unexpected"}

\* What json.loads may give for the argument text: a dict, or a JSON value
\* that is no mapping (a list, a number).
NonMappings == {[type |-> "list"], [type |-> "number"]}
ArgumentBundles == {Object(keys) : keys \in SUBSET ArgumentKeys} \cup NonMappings

InitDispatch ==
    /\ glm_api_key = "sk-key"
    /\ debug = TRUE
    /\ enable_rate_limiting = TRUE
    /\ rate_limit = DEFAULT_RATE_LIMIT
    /\ _requests = <<>>
    /\ now = 0
    /\ _global_client = "GLMClient"
    /\ _global_agent = "UKBAgent"
    /\ pc = "DISPATCH"
    /\ user_query = <<>>
    /\ language = None
    /\ messages = <<>>
    /\ iteration = 0
    /\ \E tool_name \in tools_dispatch \cup {"lookup_gene"}, bundle \in ArgumentBundles :
         message = [content |-> None,
                    tool_calls |-> ToolCalls(1, << [name |-> tool_name,
                                                    arguments |-> bundle] >>)]
    /\ call_index = 1
    /\ envelope = NoneValue
    /\ escaped = NoneValue
    /\ run_outcome = NoOutcome
    /\ deviations = 0
    /\ hist = NoHist
    /\ threads = <<>>

\* self._execute_tool(tool_name, tool_args): its outcome, and the keyword
\* arguments the handler was called with (None: it was not called).
ExecuteTool ==
    /\ pc = "DISPATCH"
    /\ \E behaviour \in ToolBehaviours :
         LET call == message.tool_calls[call_index].function
         IN  /\ run_outcome' = _execute_tool(call.name, call.arguments, behaviour)
             /\ hist' = [hist EXCEPT
                    !.dispatches = @ + 1,
                    !.last_call =
                       [behaviour |-> behaviour,
                        passed |-> IF call.name \in tools_dispatch
                                      /\ call.arguments.type = "object"
                                   THEN [type |-> "kwargs",
                                         keys |-> valid_args(call.name, call.arguments)]
                                   ELSE NoneValue]]
    /\ pc' = "DISPATCHED"
    /\ UNCHANGED <<threads, glm_api_key, debug, enable_rate_limiting, rate_limit, _requests, now,
                   _global_client, _global_agent, user_query, language, messages,
                   iteration, message, call_index, envelope, escaped, deviations>>

NextDispatch == ExecuteTool

SpecDispatch == InitDispatch /\ [][NextDispatch]_vars

(***************************************************************************)
(* convert_error_to_response on its own: every kind of error the program   *)
(* raises, in either language.                                             *)
(***************************************************************************)
FieldIds == {"31", "21022", "20002"}
EncodingIds == {"9", "100261", "19"}
CategoryNames == {"Population characteristics", "Imaging", "Online follow-up"}
DecoratedFunctions == {"run", "chat_completion", "build_messages", "_execute_tool"}

ConvertErrors ==
    {FieldNotFoundError(id) : id \in FieldIds}
    \cup {EncodingNotFoundError(id) : id \in EncodingIds}
    \cup {CategoryNotFoundError(name) : name \in CategoryNames}
    \cup {MapRemoteError(phrases) : phrases \in SUBSET Phrases}
    \cup {RateLimitError(<<"Rate limit exceeded. Maximum ", "60", " requests per minute.">>,
                         RETRY_AFTER),
          APIError(<<"GLM API key is not configured properly">>, None)}
    \cup {ToolExecutionError(name, <<"Tool '", name, "' not found">>) :
             name \in tools_dispatch \cup {"lookup_gene"}}
    \cup {handle_exceptions(None, func, Raise(BuiltinError("ValueError", <<"bad value">>))).exc :
             func \in DecoratedFunctions}

InitConvert ==
    /\ glm_api_key = "sk-key"
    /\ debug = TRUE
    /\ enable_rate_limiting = TRUE
    /\ rate_limit = DEFAULT_RATE_LIMIT
    /\ _requests = <<>>
    /\ now = 0
    /\ _global_client = None
    /\ _global_agent = None
    /\ pc = "CONVERT"
    /\ user_query = <<>>
    /\ language \in Language
    /\ messages = <<>>
    /\ iteration = 0
    /\ message = NoMessage
    /\ call_index = 0
    /\ envelope = NoneValue
    /\ escaped = NoneValue
    /\ run_outcome \in {Raise(e) : e \in ConvertErrors}
    /\ deviations = 0
    /\ hist = NoHist
    /\ threads = <<>>

\* envelope = convert_error_to_response(e, language.value)
ConvertError ==
    /\ pc = "CONVERT"
    /\ envelope' = convert_error_to_response(run_outcome.exc, language)
    /\ pc' = "CONVERTED"
    /\ UNCHANGED <<threads, glm_api_key, debug, enable_rate_limiting, rate_limit, _requests, now,
                   _global_client, _global_agent, user_query, language, messages,
                   iteration, message, call_index, escaped, run_outcome, deviations, hist>>

NextConvert == ConvertError

SpecConvert == InitConvert /\ [][NextConvert]_vars

(***************************************************************************)
(* One query with default arguments on a configured client, with the debug *)
(* mode on or off.                                                         *)
(***************************************************************************)
InitDebug ==
    /\ glm_api_key = "sk-key"
    /\ debug \in BOOLEAN
    /\ enable_rate_limiting = FALSE
    /\ rate_limit = DEFAULT_RATE_LIMIT
    /\ _requests = <<>>
    /\ now = 0
    /\ _global_client = None
    /\ _global_agent = None
    /\ pc = "INIT"
    /\ user_query = <<>>
    /\ language = None
    /\ messages = <<>>
    /\ iteration = 0
    /\ message = NoMessage
    /\ call_index = 0
    /\ envelope = NoneValue
    /\ escaped = NoneValue
    /\ run_outcome = NoOutcome
    /\ deviations = 0
    /\ hist = NoHist
    /\ threads = <<>>

SpecDebug == InitDebug /\ [][NextLive]_vars

(***************************************************************************)
(* chat_completion against an endpoint that raises: every text of the      *)
(* remote exception, with the limiter off or far from its quota.           *)
(***************************************************************************)
InitRemote ==
    /\ glm_api_key = "sk-key"
    /\ debug = TRUE
    /\ enable_rate_limiting \in BOOLEAN
    /\ rate_limit = DEFAULT_RATE_LIMIT
    /\ _requests = <<>>
    /\ now = 0
    /\ _global_client = "GLMClient"
    /\ _global_agent = None
    /\ pc = "REMOTE"
    /\ user_query = <<>>
    /\ language = None
    /\ messages = <<>>
    /\ iteration = 0
    /\ message \in {[kind |-> "error", phrases |-> ph] : ph \in SUBSET CasedPhrases}
    /\ call_index = 0
    /\ envelope = NoneValue
    /\ escaped = NoneValue
    /\ run_outcome = NoOutcome
    /\ deviations = 0
    /\ hist = NoHist
    /\ threads = <<>>

\* self.chat_completion(messages) when create(**params) raises.
RemoteFails ==
    /\ pc = "REMOTE"
    /\ LET r == chat_completion(_requests, now, enable_rate_limiting, rate_limit, message)
       IN  /\ _requests' = r.requests
           /\ run_outcome' = r.outcome
           /\ hist' = LogCall(hist, now, r)
    /\ pc' = "REMOTE_FAILED"
    /\ UNCHANGED <<threads, glm_api_key, debug, enable_rate_limiting, rate_limit, now,
                   _global_client, _global_agent, user_query, language, messages,
                   iteration, message, call_index, envelope, escaped, deviations>>

NextRemote == RemoteFails

SpecRemote == InitRemote /\ [][NextRemote]_vars

(***************************************************************************)
(* Several queries on the shared agent: UKBAgent.run called from several   *)
(* threads, each thread one query after the other.  A frame holds the      *)
(* locals of one call of run; the variable messages holds the transcript   *)
(* written last by any call, which is what an attribute of the shared      *)
(* agent would hold.                                                       *)
(***************************************************************************)
IdleQuery ==
    [pc |-> "idle", run |-> 0, query |-> <<>>, language |-> None, messages |-> <<>>,
     iteration |-> 0, message |-> NoMessage, call_index |-> 0, outcome |-> NoOutcome]

\* The query of the run-th call of thread t: every call has its own text.
QueryText(t, run) ==
    (IF t % 2 = 1 THEN EnglishQuery ELSE <<23383, 27573, 51, 49>>) \o <<48 + t, 48 + run>>

\* What the endpoint may do at a request of a call: fail, answer, or, in the
\* first MaxDeviations turns, ask for one tool call whose id names the call
\* of run it was sent to.
QueryOutcomes(t, frame) ==
    { [kind |-> "error", phrases |-> {}],
      [kind |-> "response", message |-> [content |-> "answer", tool_calls |-> <<>>]] }
    \cup (IF frame.iteration >= MaxDeviations THEN {}
          ELSE { [kind |-> "response",
                  message |-> [content |-> None,
                               tool_calls |-> << [id |-> [query |-> <<t, frame.run>>,
                                                          turn |-> frame.iteration + 1,
                                                          index |-> 1],
                                                  function |-> PlainCall] >>]] })

\* A faulty variant of the assignment below: the transcript is kept on the
\* agent, and a new query goes on with the list the agent holds.
NewTranscript_OnAgent(previous, query, system_prompt, lang) ==
    previous \o build_messages(query, system_prompt, lang)

\* messages = self.client.build_messages(...): the local name is bound to a
\* new list, whatever transcript was written before.
NewTranscript(previous, query, system_prompt, lang) ==
    build_messages(query, system_prompt, lang)

InitQueries ==
    /\ glm_api_key = "sk-key"
    /\ debug = TRUE
    /\ enable_rate_limiting = FALSE
    /\ rate_limit = DEFAULT_RATE_LIMIT
    /\ _requests = <<>>
    /\ now = 0
    /\ _global_client = "GLMClient"
    /\ _global_agent = "UKBAgent"
    /\ pc = "QUERIES"
    /\ user_query = <<>>
    /\ language = None
    /\ messages = <<>>
    /\ iteration = 0
    /\ message = NoMessage
    /\ call_index = 0
    /\ envelope = NoneValue
    /\ escaped = NoneValue
    /\ run_outcome = NoOutcome
    /\ deviations = 0
    /\ hist = NoHist
    /\ threads = [t \in 1..MaxThreads |-> IdleQuery]

\* What a step of a query leaves alone besides threads, messages, _requests
\* and hist.
QueryFrame ==
    UNCHANGED <<glm_api_key, debug, enable_rate_limiting, rate_limit, now, _global_client,
                _global_agent, pc, user_query, language, iteration, message,
                call_index, envelope, escaped, run_outcome, deviations>>

\* The calls of run made so far, over all threads.
RECURSIVE RunsOf(_)
RunsOf(frames) == IF frames = <<>> THEN 0 ELSE Head(frames).run + RunsOf(Tail(frames))

\* agent.run(query) is entered on a thread: language, system prompt and the
\* initial transcript.
QueryStart ==
    /\ pc = "QUERIES"
    /\ RunsOf(threads) < MaxQueries
    /\ \E t \in DOMAIN threads :
         /\ threads[t].pc \in {"idle", "done"}
         /\ LET run == threads[t].run + 1
                query == QueryText(t, run)
                lang == detect_language(query)
                transcript == NewTranscript(messages, query, None, lang)
            IN  /\ threads' = [threads EXCEPT ![t] =
                       [IdleQuery EXCEPT !.pc = "awaiting", !.run = run, !.query = query,
                                         !.language = lang, !.messages = transcript]]
                /\ messages' = transcript
    /\ UNCHANGED <<_requests, hist>>
    /\ QueryFrame

\* One LLM request of a call of run, and the test for tool calls.
QueryRequest ==
    /\ pc = "QUERIES"
    /\ \E t \in DOMAIN threads :
         /\ threads[t].pc = "awaiting"
         /\ \E remote \in QueryOutcomes(t, threads[t]) :
              LET r == chat_completion(_requests, now, enable_rate_limiting, rate_limit,
                                       remote)
                  m == r.outcome.value
              IN  /\ _requests' = r.requests
                  /\ threads' = [threads EXCEPT ![t] =
                         IF r.outcome.kind = "raise"
                         THEN [@ EXCEPT !.pc = "done",
                                        !.outcome = handle_exceptions(None, "run", r.outcome)]
                         ELSE IF m.tool_calls = <<>>
                         THEN [@ EXCEPT !.pc = "done",
                                        !.outcome = Return(ContentOrEmpty(m.content))]
                         ELSE [@ EXCEPT !.pc = "dispatching", !.message = m,
                                        !.call_index = 1]]
    /\ hist' = [hist EXCEPT !.llm_requests = @ + 1]
    /\ UNCHANGED messages
    /\ QueryFrame

\* One tool call of the turn of a call of run, and its tool message.
QueryDispatch ==
    /\ pc = "QUERIES"
    /\ \E t \in DOMAIN threads :
         /\ threads[t].pc = "dispatching"
         /\ threads[t].call_index <= Len(threads[t].message.tool_calls)
         /\ LET frame == threads[t]
                step == ProcessCall(frame.message.tool_calls[frame.call_index], "returns")
                transcript == Append(frame.messages, step.value)
            IN  /\ threads' = [threads EXCEPT ![t] =
                       [@ EXCEPT !.messages = transcript, !.call_index = frame.call_index + 1]]
                /\ messages' = transcript
    /\ UNCHANGED <<_requests, hist>>
    /\ QueryFrame

\* The end of a turn of a call of run.
QueryEndTurn ==
    /\ pc = "QUERIES"
    /\ \E t \in DOMAIN threads :
         /\ threads[t].pc = "dispatching"
         /\ threads[t].call_index > Len(threads[t].message.tool_calls)
         /\ LET frame == threads[t]
                transcript == Append(frame.messages, AssistantMessage(frame.message))
            IN  /\ threads' = [threads EXCEPT ![t] =
                       [@ EXCEPT !.messages = transcript,
                                 !.iteration = frame.iteration + 1,
                                 !.message = NoMessage,
                                 !.call_index = 0,
                                 !.pc = IF frame.iteration + 1 < max_iterations
                                        THEN "awaiting" ELSE "done",
                                 !.outcome = IF frame.iteration + 1 < max_iterations
                                             THEN NoOutcome
                                             ELSE Return(ExhaustionMessage(frame.language))]]
                /\ messages' = transcript
    /\ UNCHANGED <<_requests, hist>>
    /\ QueryFrame

NextQueries == QueryStart \/ QueryRequest \/ QueryDispatch \/ QueryEndTurn

SpecQueries == InitQueries /\ [][NextQueries]_vars

(***************************************************************************)
(* The lazily created singletons: get_agent() and get_glm_client() called  *)
(* from several threads of a process that has neither yet.  A thread can   *)
(* be preempted between the test for None, the construction and the        *)
(* assignment of the global.                                               *)
(***************************************************************************)
IdleCaller == [pc |-> "idle", call |-> None, client |-> None, agent |-> None, result |-> None]

\* The instance a thread constructs.
NewClient(t) == <<"GLMClient#1", "GLMClient#2", "GLMClient#3", "GLMClient#4">>[t]
NewAgent(t) == <<"UKBAgent#1", "UKBAgent#2", "UKBAgent#3", "UKBAgent#4">>[t]

InitSingletons ==
    /\ glm_api_key = "sk-key"
    /\ debug = TRUE
    /\ enable_rate_limiting = TRUE
    /\ rate_limit = DEFAULT_RATE_LIMIT
    /\ _requests = <<>>
    /\ now = 0
    /\ _global_client = None
    /\ _global_agent = None
    /\ pc = "SINGLETONS"
    /\ user_query = <<>>
    /\ language = None
    /\ messages = <<>>
    /\ iteration = 0
    /\ message = NoMessage
    /\ call_index = 0
    /\ envelope = NoneValue
    /\ escaped = NoneValue
    /\ run_outcome = NoOutcome
    /\ deviations = 0
    /\ hist = NoHist
    /\ threads = [t \in 1..MaxThreads |-> IdleCaller]

\* What a step of an accessor leaves alone besides threads and the globals.
SingletonFrame ==
    UNCHANGED <<glm_api_key, debug, enable_rate_limiting, rate_limit, _requests, now, pc,
                user_query, language, messages, iteration, message, call_index,
                envelope, escaped, run_outcome, deviations, hist>>

\* get_agent(): if _global_agent is None
GetAgentTest ==
    /\ pc = "SINGLETONS"
    /\ \E t \in DOMAIN threads :
         /\ threads[t].pc = "idle"
         /\ threads' = [threads EXCEPT ![t] =
                [@ EXCEPT !.call = "get_agent",
                          !.pc = IF _global_agent = None THEN "client_test"
                                 ELSE "agent_return"]]
    /\ UNCHANGED <<_global_client, _global_agent>>
    /\ SingletonFrame

\* get_glm_client(), called directly or by UKBAgent.__init__:
\* if _global_client is None
GetClientTest ==
    /\ pc = "SINGLETONS"
    /\ \E t \in DOMAIN threads :
         /\ threads[t].pc \in {"idle", "client_test"}
         /\ threads' = [threads EXCEPT ![t] =
                [@ EXCEPT !.call = IF threads[t].pc = "idle" THEN "get_glm_client" ELSE @,
                          !.pc = IF _global_client = None THEN "client_create"
                                 ELSE "client_return"]]
    /\ UNCHANGED <<_global_client, _global_agent>>
    /\ SingletonFrame

\* _global_client = create_glm_client()
GetClientCreate ==
    /\ pc = "SINGLETONS"
    /\ \E t \in DOMAIN threads :
         /\ threads[t].pc = "client_create"
         /\ _global_client' = NewClient(t)
         /\ threads' = [threads EXCEPT ![t] =
                [@ EXCEPT !.pc = "client_return", !.client = NewClient(t)]]
    /\ UNCHANGED _global_agent
    /\ SingletonFrame

\* return _global_client: to the caller, or to UKBAgent.__init__, which then
\* has the agent constructed.
GetClientReturn ==
    /\ pc = "SINGLETONS"
    /\ \E t \in DOMAIN threads :
         /\ threads[t].pc = "client_return"
         /\ threads' = [threads EXCEPT ![t] =
                IF threads[t].call = "get_glm_client"
                THEN [@ EXCEPT !.pc = "done", !.result = _global_client]
                ELSE [@ EXCEPT !.pc = "agent_assign"]]
    /\ UNCHANGED <<_global_client, _global_agent>>
    /\ SingletonFrame

\* _global_agent = UKBAgent()
GetAgentAssign ==
    /\ pc = "SINGLETONS"
    /\ \E t \in DOMAIN threads :
         /\ threads[t].pc = "agent_assign"
         /\ _global_agent' = NewAgent(t)
         /\ threads' = [threads EXCEPT ![t] =
                [@ EXCEPT !.pc = "agent_return", !.agent = NewAgent(t)]]
    /\ UNCHANGED _global_client
    /\ SingletonFrame

\* return _global_agent
GetAgentReturn ==
    /\ pc = "SINGLETONS"
    /\ \E t \in DOMAIN threads :
         /\ threads[t].pc = "agent_return"
         /\ threads' = [threads EXCEPT ![t] =
                [@ EXCEPT !.pc = "done", !.result = _global_agent]]
    /\ UNCHANGED <<_global_client, _global_agent>>
    /\ SingletonFrame

NextSingletons ==
    \/ GetAgentTest \/ GetClientTest \/ GetClientCreate \/ GetClientReturn
    \/ GetAgentAssign \/ GetAgentReturn

SpecSingletons == InitSingletons /\ [][NextSingletons]_vars

(***************************************************************************)
(* The decorator on its own: a wrapped function that returns or raises,    *)
(* under every default_return.                                             *)
(***************************************************************************)
DefaultReturns == {None, "default", ""}

\* What the wrapped function does: it returns, raises one of the program's
\* errors, or raises an exception that is no UKBSearchException.
WrappedOutcomes ==
    {Return("value")}
    \cup {Raise(e) : e \in ConvertErrors}
    \cup {Raise(BuiltinError("ValueError", <<"Test error">>)),
          Raise(BuiltinError("KeyError", <<"'choices'">>))}

InitWrap ==
    /\ glm_api_key = "sk-key"
    /\ debug = TRUE
    /\ enable_rate_limiting = TRUE
    /\ rate_limit = DEFAULT_RATE_LIMIT
    /\ _requests = <<>>
    /\ now = 0
    /\ _global_client = None
    /\ _global_agent = None
    /\ pc = "WRAP"
    /\ user_query = <<>>
    /\ language = None
    /\ messages = <<>>
    /\ iteration = 0
    /\ message \in [default_return : DefaultReturns,
                    func : DecoratedFunctions \cup {"test_function"},
                    outcome : WrappedOutcomes]
    /\ call_index = 0
    /\ envelope = NoneValue
    /\ escaped = NoneValue
    /\ run_outcome = NoOutcome
    /\ deviations = 0
    /\ hist = NoHist
    /\ threads = <<>>

\* A call of the function decorated with @handle_exceptions(default_return).
CallWrapped ==
    /\ pc = "WRAP"
    /\ run_outcome' = handle_exceptions(message.default_return, message.func, message.outcome)
    /\ pc' = "WRAPPED"
    /\ UNCHANGED <<threads, glm_api_key, debug, enable_rate_limiting, rate_limit, _requests, now,
                   _global_client, _global_agent, user_query, language, messages,
                   iteration, message, call_index, envelope, escaped, deviations, hist>>

SpecWrap == InitWrap /\ [][CallWrapped]_vars

(***************************************************************************)
(* Properties.                                                             *)
(***************************************************************************)
Done == pc \in {"DONE_SUCCESS", "DONE_EXHAUSTED", "DONE_ERROR"}
RunEnded == run_outcome.kind # "none"
LastResponse == hist.responses[Len(hist.responses)]
AllWithToolCalls ==
    \A i \in DOMAIN hist.responses : hist.responses[i].tool_calls # <<>>

\* C1: UKBAgent.run issues at most max_iterations LLM requests, and a run all
\* of whose responses carried tool calls returns the exhaustion message of the
\* resolved language and raises nothing.
C1_ExhaustionOnToolCalls ==
    /\ hist.llm_requests <= max_iterations
    /\ (RunEnded /\ ~hist.transport_failed /\ AllWithToolCalls)
         => run_outcome = Return(IF language = CHINESE
                                 THEN "zh[Too many conversation rounds, please simplify your question.]"
                                 ELSE "Too many conversation rounds, please simplify your question.")

\* C2: a response without tool calls ends the run in the step that receives
\* it, with no later request or dispatch, and the answer is its text, or the
\* empty string for a null text; when it is the first response the run made
\* exactly one LLM request.
C2_AnswerIsResponseText ==
    (hist.responses # <<>> /\ LastResponse.tool_calls = <<>>)
      => /\ pc = "DONE_SUCCESS"
         /\ ~ENABLED Next
         /\ run_outcome = Return(IF LastResponse.content = None THEN ""
                                 ELSE LastResponse.content)
         /\ hist.llm_requests = Len(hist.responses)
         /\ Len(hist.responses) = 1 => hist.llm_requests = 1

C2_Witness ==
    /\ pc = "DONE_SUCCESS"
    /\ Len(hist.responses) = 1
    /\ LastResponse.content = None
    /\ run_outcome = Return("")

\* A tool message content that is the JSON text of an {"error": ...} object.
IsErrorContent(content) ==
    /\ content.type = "str"
    /\ content.json.type = "object"
    /\ "error" \in DOMAIN content.json

\* C3: when the dispatch of a tool call raised, the turn gets its error
\* message and goes on: the run does not end in an error within that turn.
C3_DispatchFailureDoesNotEndRun ==
    \A i \in DOMAIN messages :
       ( /\ messages[i].role = "tool"
         /\ IsErrorContent(messages[i].content)
         /\ messages[i].tool_call_id.turn = iteration + 1 )
       => pc # "DONE_ERROR"

\* C4: a tool call whose argument text is not valid JSON never ends the run:
\* the run is never in its error state at such a call.
C4_ArgumentErrorCaughtLocally ==
    ~ ( /\ pc = "DONE_ERROR"
        /\ call_index \in DOMAIN message.tool_calls
        /\ message.tool_calls[call_index].function.arguments = json_dumps(Malformed) )

\* C5: run_agent_safe lets no exception out and returns one envelope with a
\* boolean ok: there is an envelope exactly when the call is over.
C5_SafeNeverRaises ==
    /\ escaped = NoneValue
    /\ Done <=> envelope # NoneValue
    /\ Done => ("ok" \in DOMAIN envelope /\ envelope.ok \in BOOLEAN)

C5_Witness ==
    /\ pc = "DONE_ERROR"
    /\ run_outcome = NoOutcome
    /\ envelope.ok = FALSE
    /\ envelope.error = "UNEXPECTED_ERROR"

\* C6: a run that ends with an error ends so because its last LLM request
\* failed in the transport.
C6_OnlyTransportEndsInError ==
    run_outcome.kind = "raise" => hist.transport_failed

\* What C7 compares of a transcript message, and what the responses received
\* so far require the transcript to hold after the first two messages.
Shape(m) ==
    CASE m.role = "tool" ->
            [role |-> "tool", tool_call_id |-> m.tool_call_id, name |-> m.name]
      [] m.role = "system" -> [role |-> "system"]
      [] m.role = "user" -> [role |-> "user", query |-> m.content]
      [] OTHER -> m

RECURSIVE TurnShapes(_)
TurnShapes(responses) ==
    IF responses = <<>> THEN <<>>
    ELSE LET r == Head(responses)
         IN  [j \in 1..Len(r.tool_calls) |->
                 [role |-> "tool", tool_call_id |-> r.tool_calls[j].id,
                  name |-> r.tool_calls[j].function.name]]
             \o << [role |-> "assistant",
                    content |-> IF r.content = None THEN "" ELSE r.content] >>
             \o TurnShapes(Tail(responses))

\* C7: before every LLM request (and at exhaustion) the transcript is one
\* system message, one user message with the raw query, then per turn one
\* tool message per requested call, in request order with the id and name of
\* its call, and one assistant message with the turn's text ("" for null).
C7_TranscriptShape ==
    pc \in {"AWAITING_MODEL", "DONE_EXHAUSTED"}
      => [i \in 1..Len(messages) |-> Shape(messages[i])]
           = << [role |-> "system"], [role |-> "user", query |-> user_query] >>
             \o TurnShapes(hist.responses)

C7_Witness ==
    /\ pc = "AWAITING_MODEL"
    /\ iteration = 2
    /\ \E i \in DOMAIN hist.responses :
          /\ Len(hist.responses[i].tool_calls) = 2
          /\ hist.responses[i].content = None

\* C8: the content of every tool message of the transcript is a string.
C8_ToolContentIsString ==
    \A i \in DOMAIN messages :
       messages[i].role = "tool" => IsString(messages[i].content)

\* C9: a failed LLM request is the last step of its query: the run raised the
\* transport's typed error, nothing further is requested or dispatched, and
\* the envelope has ok = FALSE.
C9_NoRetryAfterTransportFailure ==
    hist.transport_failed
      => /\ pc = "DONE_ERROR"
         /\ ~ENABLED Next
         /\ run_outcome.kind = "raise"
         /\ run_outcome.exc.cls \in {"APIError", "RateLimitError"}
         /\ hist.llm_requests = Len(hist.responses) + 1
         /\ envelope.ok = FALSE

C9_Witness ==
    /\ hist.transport_failed
    /\ hist.llm_requests = 2
    /\ hist.dispatches = 1
    /\ ~hist.last_call.remote_called

\* C10: with limiting enabled, a request made when rate_limit admitted
\* requests are less than WINDOW seconds old fails with RATE_LIMIT_EXCEEDED
\* without a call of the endpoint, and no window of WINDOW seconds holds more
\* than rate_limit admitted requests.
C10_QuotaEnforced ==
    enable_rate_limiting
      => /\ (hist.llm_requests > 0 /\ hist.last_call.fresh >= rate_limit)
              => /\ hist.last_call.error = "RATE_LIMIT_EXCEEDED"
                 /\ ~hist.last_call.remote_called
         /\ \A t \in 0..now :
               Cardinality({i \in DOMAIN hist.admitted :
                               t - WINDOW < hist.admitted[i] /\ hist.admitted[i] <= t})
                 <= rate_limit

C10_Witness ==
    /\ enable_rate_limiting
    /\ rate_limit = 2
    /\ now > 0
    /\ hist.llm_requests > 0
    /\ hist.last_call.fresh = 2
    /\ hist.last_call.error = "RATE_LIMIT_EXCEEDED"
    /\ Len(hist.admitted) = 2

\* C11 as stated, for every quota: a request made when every admitted
\* timestamp is at least WINDOW old is admitted.
C11_RecoveryAnyQuota ==
    (enable_rate_limiting /\ hist.llm_requests > 0 /\ hist.last_call.fresh = 0)
      => hist.last_call.remote_called

\* C11: with a quota of at least one, a request made when every admitted
\* timestamp is at least WINDOW old is admitted; for every quota a request is
\* admitted exactly when fewer than rate_limit admitted timestamps are less
\* than WINDOW old, so the capacity left is always rate_limit minus the fresh
\* ones; and _requests holds, in order, admitted timestamps only and every one
\* that is still fresh.
C11_RecoveryAfterWindow ==
    (enable_rate_limiting /\ hist.llm_requests > 0)
      => /\ (rate_limit >= 1 /\ hist.last_call.fresh = 0) => hist.last_call.remote_called
         /\ hist.last_call.remote_called <=> hist.last_call.fresh < rate_limit
         /\ \E k \in 0..Len(hist.admitted) :
               /\ _requests = SubSeq(hist.admitted, k + 1, Len(hist.admitted))
               /\ \A i \in 1..k : now - hist.admitted[i] >= WINDOW

C11_Witness ==
    /\ enable_rate_limiting
    /\ rate_limit = 2
    /\ hist.llm_requests = 5
    /\ hist.remote_calls = 4
    /\ hist.last_call.remote_called
    /\ hist.last_call.fresh = 1
    /\ Len(_requests) = 2

\* How often a value occurs in a sequence.
Occurrences(seq, v) == Cardinality({i \in DOMAIN seq : seq[i] = v})

\* C12: under every interleaving of concurrent _check_rate_limit calls on one
\* client, every admitted timestamp that has not expired is still in
\* _requests, and no window of WINDOW seconds holds more than rate_limit
\* admitted requests.
C12_LimiterSerialized ==
    enable_rate_limiting
      => /\ \A i \in DOMAIN hist.admitted :
               now - hist.admitted[i] < WINDOW
                 => Occurrences(_requests, hist.admitted[i])
                      >= Occurrences(hist.admitted, hist.admitted[i])
         /\ \A t \in 0..now :
               Cardinality({i \in DOMAIN hist.admitted :
                               t - WINDOW < hist.admitted[i] /\ hist.admitted[i] <= t})
                 <= rate_limit

\* C13: the envelope of a finished call carries the query and the language
\* tag used, with the answer when ok and with error, message and details
\* when not.
C13_EnvelopeEchoesQueryAndLanguage ==
    Done
      => /\ {"ok", "query", "language"} \subseteq DOMAIN envelope
         /\ envelope.query = user_query
         /\ envelope.language = language
         /\ IF envelope.ok THEN "answer" \in DOMAIN envelope
            ELSE {"error", "message", "details"} \subseteq DOMAIN envelope

\* The language tag of a query: the argument if given, else the detected one.
ResolvedLanguage ==
    IF hist.language_arg = None THEN detect_language(user_query) ELSE hist.language_arg

\* C14: a run that ended with the model's answer gives the envelope ok = TRUE,
\* the input query, the text the loop returned (the last response's text) and
\* the value of the resolved language tag; "en" for the English query when no
\* language is passed.
C14_SuccessEnvelope ==
    pc = "DONE_SUCCESS"
      => /\ envelope = [ok |-> TRUE, query |-> user_query,
                        answer |-> run_outcome.value, language |-> ResolvedLanguage]
         /\ run_outcome = Return(IF LastResponse.content = None THEN ""
                                 ELSE LastResponse.content)
         /\ (user_query = EnglishQuery /\ hist.language_arg = None)
               => envelope.language = "en"

C14_Witness ==
    /\ pc = "DONE_SUCCESS"
    /\ user_query = EnglishQuery
    /\ hist.language_arg = None
    /\ envelope.ok
    /\ envelope.answer = "answer"
    /\ envelope.language = "en"

\* The transcript after the system and user messages when every turn was one
\* call of an unknown tool: per turn the error message of the call and the
\* assistant message.
RECURSIVE UnknownToolTurns(_)
UnknownToolTurns(responses) ==
    IF responses = <<>> THEN <<>>
    ELSE LET r == Head(responses)
             name == r.tool_calls[1].function.name
         IN  << [role |-> "tool", tool_call_id |-> r.tool_calls[1].id, name |-> name,
                 content |-> json_dumps(ErrorObject(
                     <<"ToolExecutionError", ": ", "Tool '", name, "' execution failed: ",
                       "Tool '", name, "' not found">>))],
                [role |-> "assistant",
                 content |-> IF r.content = None THEN "" ELSE r.content] >>
             \o UnknownToolTurns(Tail(responses))

\* Every response received carried exactly one call, of a tool without handler.
OnlyUnknownToolCalls ==
    \A i \in DOMAIN hist.responses :
       /\ Len(hist.responses[i].tool_calls) = 1
       /\ hist.responses[i].tool_calls[1].function.name \notin tools_dispatch

\* C15: a run in which every request was answered, each time with one call of
\* an unknown tool, ends only after max_iterations requests, each turn having
\* appended one error tool message and one assistant message, and its
\* envelope has ok = TRUE with the exhaustion message as answer.
C15_UnknownToolExhausts ==
    (hist.llm_requests > 0 /\ OnlyUnknownToolCalls /\ ~hist.transport_failed)
      => /\ pc \in {"AWAITING_MODEL", "DONE_EXHAUSTED"}
              => SubSeq(messages, 3, Len(messages)) = UnknownToolTurns(hist.responses)
         /\ Done
              => /\ pc = "DONE_EXHAUSTED"
                 /\ hist.llm_requests = max_iterations
                 /\ Len(messages) = 2 + 2 * max_iterations
                 /\ envelope = [ok |-> TRUE, query |-> user_query,
                                answer |-> IF language = CHINESE
                                    THEN "zh[Too many conversation rounds, please simplify your question.]"
                                    ELSE "Too many conversation rounds, please simplify your question.",
                                language |-> language]

C15_Witness ==
    /\ pc = "DONE_EXHAUSTED"
    /\ OnlyUnknownToolCalls
    /\ hist.llm_requests = max_iterations
    /\ hist.dispatches = max_iterations
    /\ envelope.ok

\* C16: every query is eventually over, in one of the three terminal states
\* of the loop and with its envelope, and from a terminal state no step
\* changes the outcome, makes an LLM request or dispatches a tool.
C16_RunTerminatesOnce ==
    /\ <>(Done /\ envelope # NoneValue)
    /\ [][Done => /\ pc' = pc
                  /\ run_outcome' = run_outcome
                  /\ envelope' = envelope
                  /\ hist'.llm_requests = hist.llm_requests
                  /\ hist'.dispatches = hist.dispatches]_vars

C16_Witness ==
    /\ pc = "DONE_EXHAUSTED"
    /\ hist.llm_requests = max_iterations
    /\ hist.dispatches > max_iterations
    /\ envelope.ok

\* The first parts of the error-message templates of a language.
TemplateHeads(lang) ==
    { (IF lang = CHINESE THEN ERROR_MESSAGES[k].zh ELSE ERROR_MESSAGES[k].en)[1] :
        k \in DOMAIN ERROR_MESSAGES }

\* C17: from its resolution on, the language tag of a query is the argument
\* if one was given and detect_language(query) otherwise, at every point of
\* the loop; the default system prompt, the exhaustion message, the error
\* template of the envelope and the language field of the envelope are those
\* of this tag.
C17_OneLanguagePerQuery ==
    pc # "INIT"
      => /\ language = ResolvedLanguage
         /\ (messages # <<>> /\ hist.system_prompt_arg = None)
              => messages[1].content = (IF ResolvedLanguage = CHINESE
                                        THEN "SYSTEM_PROMPT_ZH" ELSE "SYSTEM_PROMPT_EN")
         /\ pc = "DONE_EXHAUSTED"
              => run_outcome.value
                   = (IF ResolvedLanguage = CHINESE
                      THEN "zh[Too many conversation rounds, please simplify your question.]"
                      ELSE "Too many conversation rounds, please simplify your question.")
         /\ (Done /\ ~envelope.ok /\ "error" \notin DOMAIN envelope.details)
              => envelope.message[1] \in TemplateHeads(ResolvedLanguage)
         /\ (Done /\ envelope.ok) => envelope.language = ResolvedLanguage

C17_Witness ==
    /\ pc = "DONE_EXHAUSTED"
    /\ user_query = EnglishQuery
    /\ hist.language_arg = CHINESE
    /\ hist.system_prompt_arg = None
    /\ messages[1].content = "SYSTEM_PROMPT_ZH"
    /\ envelope.language = "zh"

\* The CJK characters of the text and its characters other than ' '.
CjkCount == Cardinality({i \in DOMAIN user_query :
                           19968 <= user_query[i] /\ user_query[i] <= 40959})
NonSpaceCount == Cardinality({i \in DOMAIN user_query : user_query[i] # 32})

\* C18: a text with c CJK characters among t > 0 characters other than ' ' is
\* Chinese exactly when 10 * c > 3 * t; with c = 3 and t = 10 it is English.
C18_ThresholdIsStrict ==
    (pc = "DETECTED" /\ NonSpaceCount > 0)
      => /\ language = CHINESE <=> 10 * CjkCount > 3 * NonSpaceCount
         /\ language \in {CHINESE, ENGLISH}
         /\ (CjkCount = 3 /\ NonSpaceCount = 10) => language = ENGLISH

C18_Witness ==
    /\ pc = "DETECTED"
    /\ CjkCount = 3
    /\ NonSpaceCount = 10
    /\ language = ENGLISH

\* C19: a text made of white space only (spaces, tabs, newlines), the empty
\* text included, is Chinese.
C19_BlankIsChinese ==
    (pc = "DETECTED" /\ \A i \in DOMAIN user_query : user_query[i] \in {32, 9, 10})
      => language = CHINESE

\* The call _execute_tool was given.
DispatchedCall == message.tool_calls[1].function

\* C20: for a known tool and a bundle that is a dict the handler is called with exactly the keys of the
\* bundle that are parameters of the tool; when all required parameters are
\* present and the tool itself does not fail, the dispatch returns the tool's
\* value whatever other keys the bundle holds; when a required parameter is
\* missing the dispatch raises ToolExecutionError with the tool's name in its
\* details.
C20_ArgumentsFiltered ==
    ( /\ pc = "DISPATCHED"
      /\ DispatchedCall.name \in tools_dispatch
      /\ DispatchedCall.arguments.type = "object" )
      => LET schema == tools_schema[DispatchedCall.name]
             keys == DispatchedCall.arguments.keys
         IN  /\ hist.last_call.passed.keys
                   = {k \in keys : k \in schema.properties}
             /\ (schema.required \subseteq keys /\ hist.last_call.behaviour = "returns")
                   => run_outcome.kind = "return"
             /\ ~(schema.required \subseteq keys)
                   => /\ run_outcome.kind = "raise"
                      /\ run_outcome.exc.cls = "ToolExecutionError"
                      /\ run_outcome.exc.error_code = "TOOL_EXECUTION_ERROR"
                      /\ run_outcome.exc.details.tool_name = DispatchedCall.name

C20_Witness ==
    /\ pc = "DISPATCHED"
    /\ DispatchedCall.name = "search_fields_by_keyword"
    /\ DispatchedCall.arguments = Object({"keyword", "unexpected", "field_id"})
    /\ hist.last_call.passed.keys = {"keyword"}
    /\ run_outcome.kind = "return"

\* The text of the failure underneath a dispatch, from the call and from what
\* the tool does; <<>> when nothing fails.
UnderlyingFailure ==
    LET name == DispatchedCall.name
        bundle == DispatchedCall.arguments
    IN  IF name \notin tools_dispatch THEN <<"Tool '", name, "' not found">>
        ELSE IF bundle.type # "object" THEN <<"object has no attribute 'items'">>
        ELSE IF ~(tools_schema[name].required \subseteq bundle.keys)
        THEN <<name, "() missing required positional argument">>
        ELSE IF hist.last_call.behaviour = "raises"
        THEN StrOf(ToolDomainError(name))
        ELSE <<>>

\* C21: a dispatch fails exactly when the tool is unknown, the bundle is no
\* dict, a required parameter is missing or the tool raises, and whatever the
\* cause the exception that leaves _execute_tool is one ToolExecutionError
\* with code TOOL_EXECUTION_ERROR, the tool's name in its details and the
\* underlying text in its message.
C21_OneDispatchErrorKind ==
    pc = "DISPATCHED"
      => IF UnderlyingFailure = <<>> THEN run_outcome.kind = "return"
         ELSE run_outcome
                = Raise([cls |-> "ToolExecutionError",
                         message |-> <<"Tool '", DispatchedCall.name, "' execution failed: ">>
                                       \o UnderlyingFailure,
                         error_code |-> "TOOL_EXECUTION_ERROR",
                         details |-> [tool_name |-> DispatchedCall.name]])

C21_Witness ==
    /\ pc = "DISPATCHED"
    /\ DispatchedCall.name = "get_encoding_values"
    /\ DispatchedCall.arguments = Object({"encoding_id", "unexpected"})
    /\ hist.last_call.behaviour = "raises"
    /\ run_outcome.kind = "raise"
    /\ run_outcome.exc.cls = "ToolExecutionError"

\* C22: a dispatch of a name without handler calls no handler and raises an
\* error of a kind of its own, not the kind of failed invocations.
C22_NotFoundIsDistinctKind ==
    (pc = "DISPATCHED" /\ DispatchedCall.name \notin tools_dispatch)
      => /\ hist.last_call.passed = NoneValue
         /\ run_outcome.kind = "raise"
         /\ run_outcome.exc.cls # "ToolExecutionError"
         /\ run_outcome.exc.error_code # "TOOL_EXECUTION_ERROR"

\* C23: the envelope of an error has ok false, the error's code and the
\* error's details, and its message is the template of the error's kind in
\* the requested language with the detail in the placeholder's place: the
\* field id, the encoding id, the category name, nothing for a rate limit,
\* and for every other error the API-error template around the error's
\* own message.
C23_ErrorEnvelope ==
    pc = "CONVERTED"
      => LET e == run_outcome.exc
             T(key) == IF language = CHINESE THEN ERROR_MESSAGES[key].zh
                       ELSE ERROR_MESSAGES[key].en
             Fill(t, detail) == <<t[1]>> \o detail \o <<t[3]>>
         IN  /\ DOMAIN envelope = {"ok", "error", "message", "details"}
             /\ envelope.ok = FALSE
             /\ envelope.error = e.error_code
             /\ envelope.details = e.details
             /\ envelope.message
                  = CASE e.error_code = "FIELD_NOT_FOUND" ->
                           Fill(T("field_not_found"), <<e.details.field_id>>)
                      [] e.error_code = "ENCODING_NOT_FOUND" ->
                           Fill(T("encoding_not_found"), <<e.details.encoding_id>>)
                      [] e.error_code = "CATEGORY_NOT_FOUND" ->
                           Fill(T("category_not_found"), <<e.details.category_name>>)
                      [] e.error_code = "RATE_LIMIT_EXCEEDED" -> T("rate_limit_exceeded")
                      [] OTHER -> Fill(T("api_error"), e.message)

C23_Witness ==
    /\ pc = "CONVERTED"
    /\ language = ENGLISH
    /\ run_outcome.exc = EncodingNotFoundError("100261")
    /\ envelope.message = <<"Encoding ", "100261",
                            " not found. Please check if the encoding ID is correct.">>

\* The texts of the exceptions that are no UKBSearchException: what the SDK
\* constructor and json.loads say.
InternalTexts ==
    {StrOf(GLMClientInit("sk-key", "raises").exc),
     StrOf(json_loads([type |-> "str", json |-> Malformed]).exc)}

\* C24: with the debug mode off, the envelope of a query that an unexpected
\* exception ended has no part of the exception's text in its message and
\* no entry of its details that carries the text, so it is the same envelope
\* whatever the text.
C24_NoInternalTextUnlessDebug ==
    (Done /\ ~debug /\ ~envelope.ok /\ envelope.error = "UNEXPECTED_ERROR")
      => /\ \A text \in InternalTexts :
               \A i \in DOMAIN envelope.message, j \in DOMAIN text :
                   envelope.message[i] # text[j]
         /\ DOMAIN envelope.details \cap {"error", "original_error"} = {}

\* C25: whatever the remote exception says, chat_completion raises one typed
\* error chosen by the first phrase its lower-cased text contains, in the
\* order rate limit, invalid api key, model not found, and the generic
\* APIError around the text as it was when it contains none.
C25_RemoteErrorMapped ==
    pc = "REMOTE_FAILED"
      => LET said == message.phrases
             Has(a, b) == a \in said \/ b \in said
             api == [api_name |-> "GLM"]
         IN  /\ hist.last_call.remote_called
             /\ run_outcome.kind = "raise"
             /\ run_outcome.exc =
                  (IF Has("rate limit", "Rate Limit")
                   THEN [cls |-> "RateLimitError", message |-> <<"API rate limit exceeded">>,
                         error_code |-> "RATE_LIMIT_EXCEEDED", details |-> EmptyDict]
                   ELSE IF Has("invalid api key", "Invalid API Key")
                   THEN [cls |-> "APIError", message |-> <<"Invalid API key">>,
                         error_code |-> "API_ERROR", details |-> api]
                   ELSE IF Has("model not found", "Model Not Found")
                   THEN [cls |-> "APIError", message |-> <<"Model '", "{model}", "' not found">>,
                         error_code |-> "API_ERROR", details |-> api]
                   ELSE [cls |-> "APIError",
                         message |-> <<"GLM API request failed: ", "remote error">>
                                     \o (IF "Connection Reset" \in said
                                         THEN <<"Connection Reset">> ELSE <<>>),
                         error_code |-> "API_ERROR", details |-> api])

C25_Witness ==
    /\ pc = "REMOTE_FAILED"
    /\ message.phrases = {"Invalid API Key", "model not found"}
    /\ run_outcome.kind = "raise"
    /\ run_outcome.exc.message = <<"Invalid API key">>

\* The tool messages of a transcript, and the calls a list of responses asks for.
ToolCount(msgs) == Cardinality({i \in DOMAIN msgs : msgs[i].role = "tool"})

RECURSIVE CallCount(_)
CallCount(responses) ==
    IF responses = <<>> THEN 0
    ELSE Len(Head(responses).tool_calls) + CallCount(Tail(responses))

\* C26: within a query, an LLM request is made only when every call of every
\* response received so far has its tool message; a tool message is appended
\* only after the response of the current iteration has arrived, and it is
\* the message of the next call of that response in request order; the
\* iteration advances only when all calls of its response have been handled.
C26_StrictSequencing ==
    [][ /\ hist.llm_requests' # hist.llm_requests
           => /\ hist.llm_requests' = hist.llm_requests + 1
              /\ hist.llm_requests = iteration
              /\ Len(hist.responses) = iteration
              /\ ToolCount(messages) = CallCount(hist.responses)
        /\ ToolCount(messages') # ToolCount(messages)
           => /\ hist.llm_requests = iteration + 1
              /\ Len(hist.responses) = iteration + 1
              /\ hist.responses' = hist.responses
              /\ messages' = Append(messages, messages'[Len(messages')])
              /\ LET earlier == SubSeq(hist.responses, 1, iteration)
                     k == ToolCount(messages) - CallCount(earlier) + 1
                 IN  /\ k \in DOMAIN LastResponse.tool_calls
                     /\ messages'[Len(messages')].tool_call_id
                          = LastResponse.tool_calls[k].id
        /\ iteration' # iteration
           => /\ iteration' = iteration + 1
              /\ hist.llm_requests' = hist.llm_requests
              /\ ToolCount(messages') = CallCount(hist.responses)
      ]_vars

C26_Witness ==
    /\ pc = "AWAITING_MODEL"
    /\ hist.llm_requests = 2
    /\ Len(hist.responses[1].tool_calls) = 2
    /\ Len(hist.responses[2].tool_calls) = 1
    /\ ToolCount(messages) = 3

\* C27: at every point of every query the names the descriptors advertise
\* are the names the dispatch table has a handler for, and a call of any of
\* them in the response being processed is a call of an advertised tool.
C27_AdvertisedEqualsDispatchable ==
    /\ DOMAIN tools_schema = tools_dispatch
    /\ \A i \in DOMAIN message.tool_calls :
          (message.tool_calls[i].function.name \in DOMAIN tools_schema)
            <=> (message.tool_calls[i].function.name \in tools_dispatch)

C27_Witness ==
    /\ pc = "DISPATCHING_TOOLS"
    /\ iteration = 1
    /\ hist.dispatches > 0
    /\ \E i \in DOMAIN message.tool_calls :
          message.tool_calls[i].function.name = "explain_field_by_id"
    /\ \E i \in DOMAIN message.tool_calls :
          message.tool_calls[i].function.name = "lookup_gene"

\* C28: whatever other queries ran before or run at the same time on the
\* shared agent, the transcript of a call of run holds only messages of its
\* own query: it starts with the system message and the user message of its
\* own query text, every tool message answers a call that was sent to this
\* query, and it has one assistant message per turn of this query and
\* nothing else.
C28_TranscriptsIndependent ==
    pc = "QUERIES"
      => \A t \in DOMAIN threads :
           LET frame == threads[t]
               msgs == frame.messages
           IN  frame.pc # "idle"
                 => /\ Len(msgs) >= 2
                    /\ msgs[1].role = "system"
                    /\ msgs[2] = [role |-> "user", content |-> QueryText(t, frame.run)]
                    /\ \A i \in 3..Len(msgs) :
                          /\ msgs[i].role \in {"tool", "assistant"}
                          /\ msgs[i].role = "tool"
                               => msgs[i].tool_call_id.query = <<t, frame.run>>
                    /\ Cardinality({i \in DOMAIN msgs : msgs[i].role = "assistant"})
                         = frame.iteration
                    /\ ToolCount(msgs) \in {frame.iteration, frame.iteration + 1}

C28_Witness ==
    /\ pc = "QUERIES"
    /\ threads[1].run = 2
    /\ threads[1].pc = "dispatching"
    /\ ToolCount(threads[1].messages) = 2
    /\ threads[2].pc = "awaiting"
    /\ ToolCount(threads[2].messages) = 1

\* C29: the message of an error envelope is a Chinese text exactly when the
\* language resolved for the query is Chinese, whatever error ended the
\* query, a failure of the construction of the agent or the client included.
C29_ErrorMessageInQueryLanguage ==
    (Done /\ ~envelope.ok)
      => ((envelope.message[1] \in TemplateHeads(CHINESE)) <=> (ResolvedLanguage = CHINESE))

\* C30: whatever the interleaving of the first calls, at most one client and
\* at most one agent are ever constructed, and all callers of an accessor
\* are handed the same instance.
C30_OneInstancePerProcess ==
    pc = "SINGLETONS"
      => /\ Cardinality({threads[t].client : t \in DOMAIN threads} \ {None}) <= 1
         /\ Cardinality({threads[t].agent : t \in DOMAIN threads} \ {None}) <= 1
         /\ \A t, u \in DOMAIN threads :
               ( /\ threads[t].pc = "done"
                 /\ threads[u].pc = "done"
                 /\ threads[t].call = threads[u].call )
                 => threads[t].result = threads[u].result

\* C31: a call of a decorated function gives what the function returned; a
\* UKBSearchException or an exception of a subclass leaves it as it was
\* raised; for any other exception the call returns the configured default
\* when that is not None, the empty string included, and otherwise raises a
\* UKBSearchException with code UNEXPECTED_ERROR whose details hold the
\* function's name and the text of the original exception.
C31_ExceptionTranslation ==
    pc = "WRAPPED"
      => LET out == message.outcome
         IN  IF out.kind = "return" THEN run_outcome = out
             ELSE IF out.exc.cls \in UKBClasses THEN run_outcome = out
             ELSE IF message.default_return # None
             THEN run_outcome = [kind |-> "return", value |-> message.default_return]
             ELSE /\ run_outcome.kind = "raise"
                  /\ run_outcome.exc.cls = "UKBSearchException"
                  /\ run_outcome.exc.error_code = "UNEXPECTED_ERROR"
                  /\ run_outcome.exc.details
                       = [function |-> message.func, original_error |-> out.exc.message]
                  /\ run_outcome.exc.message
                       = <<"Unexpected error in ", message.func, ": ">> \o out.exc.message

C31_Witness ==
    /\ pc = "WRAPPED"
    /\ message.func = "test_function"
    /\ message.default_return = ""
    /\ message.outcome = Raise(BuiltinError("ValueError", <<"Test error">>))
    /\ run_outcome = Return("")

\* C32: the exception that ends a run and the envelope of a failed query
\* carry no other code than API_ERROR, RATE_LIMIT_EXCEEDED and
\* UNEXPECTED_ERROR: the errors of tools stay in the tool messages.
C32_EnvelopeErrorCodes ==
    /\ run_outcome.kind = "raise"
          => run_outcome.exc.error_code
               \in {"API_ERROR", "RATE_LIMIT_EXCEEDED", "UNEXPECTED_ERROR"}
    /\ (Done /\ ~envelope.ok)
          => envelope.error \in {"API_ERROR", "RATE_LIMIT_EXCEEDED", "UNEXPECTED_ERROR"}

C32_Witness ==
    /\ pc = "DONE_ERROR"
    /\ envelope.error = "RATE_LIMIT_EXCEEDED"
    /\ hist.dispatches = 2
    /\ \E i \in DOMAIN messages :
          /\ messages[i].role = "tool"
          /\ messages[i].name = "explain_field_by_id"
          /\ IsErrorContent(messages[i].content)

\* C33: a request the limiter rejects leaves of _requests what was there less
\* than WINDOW seconds old, in the same order, drops only entries at least
\* WINDOW old and adds nothing, so the log of admitted requests and the
\* number of fresh entries are what they were before the request.
C33_RejectionRecordsNothing ==
    [][ ( /\ enable_rate_limiting
          /\ hist.llm_requests' = hist.llm_requests + 1
          /\ hist.last_call'.error = "RATE_LIMIT_EXCEEDED"
          /\ ~hist.last_call'.remote_called )
        => /\ \E k \in 0..Len(_requests) :
                 /\ _requests' = SubSeq(_requests, k + 1, Len(_requests))
                 /\ \A i \in 1..k : now - _requests[i] >= WINDOW
                 /\ \A i \in (k + 1)..Len(_requests) : now - _requests[i] < WINDOW
           /\ hist.admitted' = hist.admitted
           /\ CountFresh(_requests', now) = CountFresh(_requests, now)
      ]_vars

C33_Witness ==
    /\ enable_rate_limiting
    /\ rate_limit = 2
    /\ hist.llm_requests = 4
    /\ hist.last_call.error = "RATE_LIMIT_EXCEEDED"
    /\ ~hist.last_call.remote_called
    /\ _requests = <<0, 59>>
    /\ now = 59

\* C34: with limiting enabled, _requests holds one timestamp for every LLM
\* request of the run that was admitted, at most max_iterations of them, and
\* every request of the loop is put to the limiter: a request with
\* rate_limit timestamps on record is rejected, and a rejection ends the
\* query with a RATE_LIMIT_EXCEEDED envelope whatever was dispatched before.
C34_LimiterCountsRoundTrips ==
    enable_rate_limiting
      => /\ Len(_requests) = hist.remote_calls
         /\ hist.remote_calls <= max_iterations
         /\ Len(_requests) <= rate_limit
         /\ hist.llm_requests > 0
               => /\ hist.last_call.remote_called <=> hist.last_call.fresh < rate_limit
                  /\ ~hist.last_call.remote_called
                       => /\ pc = "DONE_ERROR"
                          /\ ~envelope.ok
                          /\ envelope.error = "RATE_LIMIT_EXCEEDED"

C34_Witness ==
    /\ enable_rate_limiting
    /\ pc = "DONE_ERROR"
    /\ envelope.error = "RATE_LIMIT_EXCEEDED"
    /\ iteration = 1
    /\ hist.llm_requests = 2
    /\ hist.dispatches > 0
    /\ Len(_requests) = 1

\* C35: once a query has its transcript, every step leaves the messages it
\* holds as they are and in place and at most appends to them, and before
\* LLM request i+1 the transcript has 2 + i messages plus one for every tool
\* call of the responses 1..i, which is more than before request i.
C35_TranscriptAppendOnly ==
    [][ /\ pc # "INIT"
           => /\ Len(messages') >= Len(messages)
              /\ SubSeq(messages', 1, Len(messages)) = messages
        /\ pc = "AWAITING_MODEL"
           => /\ Len(hist.responses) = iteration
              /\ Len(messages) = 2 + iteration + CallCount(hist.responses)
              /\ \A i \in DOMAIN hist.responses : Len(hist.responses[i].tool_calls) >= 1
      ]_vars

C35_Witness ==
    /\ pc = "AWAITING_MODEL"
    /\ iteration = 2
    /\ CallCount(hist.responses) = 3
    /\ Len(messages) = 7

\* C36: when a run is over, every tool call of every response received has
\* been dispatched and has its tool message, the calls of the response of the
\* last iteration included.
C36_EveryCallDispatched ==
    Done => /\ hist.dispatches = CallCount(hist.responses)
            /\ ToolCount(messages) = CallCount(hist.responses)

\* C37: with limiting disabled, _check_rate_limit returns without raising and
\* with _requests as it was, whatever the quota and the clock, so every
\* request reaches the endpoint and _requests stays as constructed.
C37_DisabledLimiterIsInert ==
    [][ ( /\ ~enable_rate_limiting
          /\ hist.llm_requests' = hist.llm_requests + 1 )
        => /\ _check_rate_limit(_requests, now, enable_rate_limiting, rate_limit)
                = [requests |-> _requests, outcome |-> Return(None)]
           /\ _requests' = _requests
           /\ _requests' = <<>>
           /\ hist.last_call'.remote_called
           /\ hist.remote_calls' = hist.remote_calls + 1
      ]_vars

C37_Witness ==
    /\ ~enable_rate_limiting
    /\ rate_limit = 1
    /\ now = WINDOW - 1
    /\ hist.llm_requests = 4
    /\ hist.remote_calls = 4
    /\ hist.last_call.remote_called
    /\ _requests = <<>>

====
